---- MODULE Spec2Model ----
(***************************************************************************)
(* AI Economics Navigator: the normalisation utility (safeToNumber) and    *)
(* the three deterministic engines (TranslationCalc.results,               *)
(* RagCalc.results, RoiPanel.results with App.currentAiMonthlyCost and     *)
(* App.projectionData).                                                    *)
(*                                                                         *)
(* JavaScript numbers are modelled as exact rationals extended with NaN,   *)
(* +Infinity and -Infinity, with the IEEE-754 rules for the non-finite     *)
(* values (x/0, Infinity*0, Infinity-Infinity, comparisons with NaN).      *)
(* Binary rounding of finite results and the sign of zero are not          *)
(* modelled.                                                               *)
(***************************************************************************)
EXTENDS Integers, Sequences, FiniteSets, TLC

(***************************************************************************)
(* JavaScript number values                                                *)
(***************************************************************************)
Abs(i) == IF i < 0 THEN -i ELSE i

RECURSIVE Gcd(_, _)
Gcd(a, b) == IF b = 0 THEN a ELSE Gcd(b, a % b)

RECURSIVE Pow10(_)
Pow10(e) == IF e <= 0 THEN 1 ELSE 10 * Pow10(e - 1)

\* the finite number n/d (d # 0), in lowest terms with a positive denominator
Fin(n, d) ==
  LET g == Gcd(Abs(n), Abs(d))
      s == IF d < 0 THEN -1 ELSE 1
  IN  [k |-> "fin", n |-> s * (n \div g), d |-> s * (d \div g)]

Num(i) == Fin(i, 1)
NaN == [k |-> "nan", n |-> 0, d |-> 1]
PosInf == [k |-> "inf", n |-> 1, d |-> 1]
NegInf == [k |-> "inf", n |-> -1, d |-> 1]
Inf(sgn) == IF sgn < 0 THEN NegInf ELSE PosInf

IsNaN(x) == x.k = "nan"
IsFinite(x) == x.k = "fin"
Sgn(x) == IF x.n > 0 THEN 1 ELSE IF x.n < 0 THEN -1 ELSE 0
\* the sign a zero operand contributes to a quotient or product (+0 only)
SgnZ(x) == IF x.n < 0 THEN -1 ELSE 1

Neg(x) == IF IsNaN(x) THEN NaN ELSE [x EXCEPT !.n = -x.n]

Mul(a, b) ==
  IF IsNaN(a) \/ IsNaN(b) THEN NaN
  ELSE IF a.k = "inf" \/ b.k = "inf"
       THEN IF Sgn(a) = 0 \/ Sgn(b) = 0 THEN NaN ELSE Inf(Sgn(a) * Sgn(b))
  ELSE LET g1 == Gcd(Abs(a.n), b.d)
           g2 == Gcd(Abs(b.n), a.d)
       IN  Fin((a.n \div g1) * (b.n \div g2), (a.d \div g2) * (b.d \div g1))

Div(a, b) ==
  IF IsNaN(a) \/ IsNaN(b) THEN NaN
  ELSE IF a.k = "inf"
       THEN IF b.k = "inf" THEN NaN ELSE Inf(Sgn(a) * SgnZ(b))
  ELSE IF b.k = "inf" THEN Num(0)
  ELSE IF b.n = 0
       THEN IF a.n = 0 THEN NaN ELSE Inf(Sgn(a))
  ELSE Mul(a, Fin(b.d, b.n))

Add(a, b) ==
  IF IsNaN(a) \/ IsNaN(b) THEN NaN
  ELSE IF a.k = "inf"
       THEN IF b.k = "inf" /\ b.n # a.n THEN NaN ELSE a
  ELSE IF b.k = "inf" THEN b
  ELSE LET g == Gcd(a.d, b.d)
       IN  Fin(a.n * (b.d \div g) + b.n * (a.d \div g), (a.d \div g) * b.d)

Sub(a, b) == Add(a, Neg(b))

\* a > b and a >= b of JavaScript: false when either operand is NaN
Gt(a, b) ==
  /\ ~IsNaN(a)
  /\ ~IsNaN(b)
  /\ a # b
  /\ Sgn(Sub(a, b)) > 0
Ge(a, b) == ~IsNaN(a) /\ ~IsNaN(b) /\ (a = b \/ Gt(a, b))

\* Math.ceil
Ceil(x) == IF IsFinite(x) THEN Num(-((-x.n) \div x.d)) ELSE x
\* Math.floor
Floor(x) == IF IsFinite(x) THEN Num(x.n \div x.d) ELSE x
\* Math.round: floor(x + 0.5)
Round(x) == IF IsFinite(x) THEN Floor(Add(x, Fin(1, 2))) ELSE x

\* truthiness of a number: 0 and NaN are falsy
Truthy(x) == ~IsNaN(x) /\ x.n # 0

\* a || b on numbers
OrElse(a, b) == IF Truthy(a) THEN a ELSE b

(***************************************************************************)
(* Number.prototype.toFixed and Number(string) on its result.              *)
(* toFixed(f) picks the integer n with n / 10^f closest to |x|, the larger *)
(* n on a tie, and keeps the sign; NaN and the infinities print as their   *)
(* names.  The decimal string is modelled by the digit count f and the     *)
(* value it denotes.                                                       *)
(***************************************************************************)
\* <<floor(r * 10^f / d), the remainder>> for 0 <= r < d, digit by digit
RECURSIVE ScaleDiv(_, _, _)
ScaleDiv(r, d, f) ==
  IF f = 0 THEN <<0, r>>
  ELSE LET prev == ScaleDiv(r, d, f - 1)
           t == prev[2] * 10
       IN  <<prev[1] * 10 + (t \div d), t % d>>

toFixed(x, f) ==
  IF ~IsFinite(x) THEN [t |-> "string", f |-> f, val |-> x]
  ELSE LET ip == Abs(x.n) \div x.d
           sd == ScaleDiv(Abs(x.n) % x.d, x.d, f)
           q == ip * Pow10(f) + sd[1] + (IF 2 * sd[2] >= x.d THEN 1 ELSE 0)
       IN  [t |-> "string", f |-> f, val |-> Fin(Sgn(x) * q, Pow10(f))]

\* Number(s) for a string s that toFixed produced
Number(s) == s.val

(***************************************************************************)
(* JavaScript values as safeToNumber sees them (val: any).  A string is a  *)
(* sequence of one-character strings.                                      *)
(***************************************************************************)
JsNumber(x) == [t |-> "number", num |-> x]
JsString(s) == [t |-> "string", str |-> s]
JsBoolean(b) == [t |-> "boolean", b |-> b]
JsUndefined == [t |-> "undefined"]
JsNull == [t |-> "object"]

typeof(v) == v.t

Digits == {"0", "1", "2", "3", "4", "5", "6", "7", "8", "9"}
WhiteSpace == {" ", "\t", "\n"}

DigitVal(c) ==
  CASE c = "0" -> 0 [] c = "1" -> 1 [] c = "2" -> 2 [] c = "3" -> 3
    [] c = "4" -> 4 [] c = "5" -> 5 [] c = "6" -> 6 [] c = "7" -> 7
    [] c = "8" -> 8 [] c = "9" -> 9

\* the number of consecutive digits of s from position p on
RECURSIVE DigitRun(_, _)
DigitRun(s, p) ==
  IF p <= Len(s) /\ s[p] \in Digits THEN 1 + DigitRun(s, p + 1) ELSE 0

\* the decimal value of the n digits of s from position p on
RECURSIVE DigitsValue(_, _, _)
DigitsValue(s, p, n) ==
  IF n = 0 THEN 0 ELSE 10 * DigitsValue(s, p, n - 1) + DigitVal(s[p + n - 1])

\* StripCurrency that leaves the commas in
RECURSIVE StripDollarAndSpace(_)
StripDollarAndSpace(s) ==
  IF s = <<>> THEN <<>>
  ELSE IF Head(s) \in {"$"} \cup WhiteSpace THEN StripDollarAndSpace(Tail(s))
  ELSE <<Head(s)>> \o StripDollarAndSpace(Tail(s))

\* s.replace(/[$,\s]/g, '')
RECURSIVE StripCurrency(_)
StripCurrency(s) ==
  IF s = <<>> THEN <<>>
  ELSE IF Head(s) \in {"$", ","} \cup WhiteSpace THEN StripCurrency(Tail(s))
  ELSE <<Head(s)>> \o StripCurrency(Tail(s))

RECURSIVE TrimStart(_)
TrimStart(s) ==
  IF s # <<>> /\ Head(s) \in WhiteSpace THEN TrimStart(Tail(s)) ELSE s

InfinityWord == <<"I", "n", "f", "i", "n", "i", "t", "y">>

(***************************************************************************)
(* parseFloat: skips leading white space and converts the longest prefix   *)
(* that is a StrDecimalLiteral ([+-] then Infinity, or digits [. digits]   *)
(* or . digits, then an optional exponent e[+-]digits); NaN when there is  *)
(* no such prefix.  An exponent of 400 or more is beyond the range of a    *)
(* double: the literal is then Infinity, or 0 when the exponent is         *)
(* negative.                                                               *)
(***************************************************************************)
parseFloat(str) ==
  LET s == TrimStart(str)
      hasSign == Len(s) >= 1 /\ s[1] \in {"+", "-"}
      sgn == IF hasSign /\ s[1] = "-" THEN -1 ELSE 1
      p0 == IF hasSign THEN 2 ELSE 1
      isInf == Len(s) >= p0 + 7 /\ SubSeq(s, p0, p0 + 7) = InfinityWord
      ni == DigitRun(s, p0)
      p1 == p0 + ni
      hasDot == p1 <= Len(s) /\ s[p1] = "."
      nf == IF hasDot THEN DigitRun(s, p1 + 1) ELSE 0
      p2 == IF hasDot THEN p1 + 1 + nf ELSE p1
      hasE == p2 <= Len(s) /\ s[p2] \in {"e", "E"}
      hasESign == hasE /\ p2 + 1 <= Len(s) /\ s[p2 + 1] \in {"+", "-"}
      eSgn == IF hasESign /\ s[p2 + 1] = "-" THEN -1 ELSE 1
      p3 == IF hasESign THEN p2 + 2 ELSE p2 + 1
      ne == IF hasE THEN DigitRun(s, p3) ELSE 0
      ex == IF ne = 0 THEN 0 ELSE eSgn * DigitsValue(s, p3, ne)
      mantN == DigitsValue(s, p0, ni) * Pow10(nf)
                 + (IF nf = 0 THEN 0 ELSE DigitsValue(s, p1 + 1, nf))
  IN  IF isInf THEN Inf(sgn)
      ELSE IF ni + nf = 0 THEN NaN
      ELSE IF mantN = 0 THEN Num(0)
      ELSE IF ex >= 400 THEN Inf(sgn)
      ELSE IF ex <= -400 THEN Num(0)
      ELSE IF ex >= 0 THEN Fin(sgn * mantN * Pow10(ex), Pow10(nf))
      ELSE Fin(sgn * mantN, Pow10(nf) * Pow10(-ex))

(***************************************************************************)
(* safeToNumber (the normalisation utility)                                *)
(***************************************************************************)
\* safeToNumber returning whatever parseFloat gives for a string
safeToNumberUnchecked(val, fallback) ==
  IF typeof(val) = "number"
  THEN IF IsFinite(val.num) THEN val.num ELSE fallback
  ELSE IF typeof(val) = "string"
  THEN parseFloat(StripCurrency(val.str))
  ELSE fallback

safeToNumber(val, fallback) ==
  IF typeof(val) = "number"
  THEN IF IsFinite(val.num) THEN val.num ELSE fallback
  ELSE IF typeof(val) = "string"
  THEN LET cleaned == StripCurrency(val.str)
           parsed == parseFloat(cleaned)
       IN  IF IsFinite(parsed) THEN parsed ELSE fallback
  ELSE fallback

(***************************************************************************)
(* Model catalog (constants.tsx)                                           *)
(***************************************************************************)
TRANSLATION_MODELS ==
  << [id |-> "gemini-3-flash-preview", name |-> "Gemini 3 Flash",
      costPerMillionChars |-> Fin(15, 100)],
     [id |-> "gpt-4o-mini", name |-> "GPT-4o Mini",
      costPerMillionChars |-> Fin(18, 100)],
     [id |-> "gpt-4o", name |-> "GPT-4o",
      costPerMillionChars |-> Fin(250, 100)],
     [id |-> "claude-3-5-sonnet", name |-> "Claude 3.5 Sonnet",
      costPerMillionChars |-> Fin(300, 100)] >>

INFERENCE_MODELS ==
  << [id |-> "gemini-3-flash-preview",
      costPerMillionInputTokens |-> Fin(10, 100),
      costPerMillionOutputTokens |-> Fin(40, 100)],
     [id |-> "gemini-3-pro-preview",
      costPerMillionInputTokens |-> Fin(125, 100),
      costPerMillionOutputTokens |-> Fin(375, 100)],
     [id |-> "gpt-4o-mini",
      costPerMillionInputTokens |-> Fin(15, 100),
      costPerMillionOutputTokens |-> Fin(60, 100)],
     [id |-> "claude-3-haiku",
      costPerMillionInputTokens |-> Fin(25, 100),
      costPerMillionOutputTokens |-> Fin(125, 100)] >>

EMBEDDING_MODELS ==
  << [id |-> "text-embedding-004",
      costPerMillionTokens |-> Fin(10, 100), dimension |-> Num(768)],
     [id |-> "text-embedding-3-small",
      costPerMillionTokens |-> Fin(2, 100), dimension |-> Num(1536)],
     [id |-> "text-embedding-3-large",
      costPerMillionTokens |-> Fin(13, 100), dimension |-> Num(3072)] >>

\* the indices of the catalog entries with the given id
IndexOfId(models, id) == {i \in 1..Len(models) : models[i].id = id}

\* models.find(m => m.id === id) || models[0]
FindOrFirst(models, id) ==
  LET hits == IndexOfId(models, id)
  IN  IF hits = {} THEN models[1]
      ELSE models[CHOOSE i \in hits : \A j \in hits : i <= j]

DEFAULT_RAG_INPUTS ==
  [ ingestionModelId |-> "text-embedding-004",
    numDocs |-> JsNumber(Num(1000)),
    tokensPerDoc |-> JsNumber(Num(800)),
    parsingCostPerDoc |-> JsNumber(Fin(5, 100)),
    chunkSize |-> JsNumber(Num(400)),
    overlapPct |-> JsNumber(Num(15)),
    metadataOverheadPct |-> JsNumber(Num(10)),
    inferenceModelId |-> "gemini-3-flash-preview",
    queriesPerMonth |-> JsNumber(Num(5000)),
    avgQueryTokens |-> JsNumber(Num(150)),
    retrievedChunks |-> JsNumber(Num(3)),
    rerankerEnabled |-> FALSE,
    rerankerCostPer1k |-> JsNumber(Num(1)),
    avgAnswerTokens |-> JsNumber(Num(250)),
    cacheHitRatePct |-> JsNumber(Num(20)),
    managedDbCostPer1kVectors |-> JsNumber(Fin(10, 100)),
    monitoringCostPer1k |-> JsNumber(Fin(50, 100)),
    evalRunsPerMonth |-> JsNumber(Num(2)),
    evalTokensPerRun |-> JsNumber(Num(50000)),
    humanReviewHours |-> JsNumber(Num(5)),
    humanHourlyRate |-> JsNumber(Num(80)),
    reindexFrequencyPerYear |-> JsNumber(Num(4)) ]

(***************************************************************************)
(* RAG lifecycle cost engine: RagCalc.results (the useMemo body), with     *)
(* every local of the computation.                                         *)
(***************************************************************************)
Million == Num(1000000)

\* const chunkSize = safeToNumber(inputs.chunkSize, 500)
RagChunkSize(inputs) == safeToNumber(inputs.chunkSize, Num(500))

\* RagUnitCost without the guard on queriesPerMonth
RagUnitCostUnguarded(monthlyOpsTotal, queriesPerMonth) ==
  Div(monthlyOpsTotal, queriesPerMonth)

\* queriesPerMonth > 0 ? (monthlyOpsTotal / queriesPerMonth) : 0
RagUnitCost(monthlyOpsTotal, queriesPerMonth) ==
  IF Gt(queriesPerMonth, Num(0))
  THEN Div(monthlyOpsTotal, queriesPerMonth)
  ELSE Num(0)

\* RagAnnualizedTotal with one month of governance instead of twelve
RagAnnualizedTotalOneGov(setupTotal, opsTotal, governanceTotal) ==
  Add(Add(setupTotal, Mul(opsTotal, Num(12))), governanceTotal)

\* oneTimeSetupTotal + (monthlyOpsTotal * 12) + (monthlyGovernanceTotal * 12)
RagAnnualizedTotal(oneTimeSetupTotal, monthlyOpsTotal, monthlyGovernanceTotal) ==
  Add(Add(oneTimeSetupTotal, Mul(monthlyOpsTotal, Num(12))),
      Mul(monthlyGovernanceTotal, Num(12)))

\* RagProjection with the months elapsed (i) in place of the month (i + 1)
RagProjectionElapsed(setupTotal, opsTotal, governanceTotal) ==
  [month \in 1..12 |->
     [ name |-> <<"M", month>>,
       Setup |-> Number(toFixed(setupTotal, 2)),
       Operations |-> Number(toFixed(Mul(opsTotal, Num(month - 1)), 2)),
       Governance |-> Number(toFixed(Mul(governanceTotal, Num(month - 1)), 2)) ]]

\* RagProjection whose governance component does not accumulate
RagProjectionFlatGovernance(setupTotal, opsTotal, governanceTotal) ==
  [month \in 1..12 |->
     [ name |-> <<"M", month>>,
       Setup |-> Number(toFixed(setupTotal, 2)),
       Operations |-> Number(toFixed(Mul(opsTotal, Num(month)), 2)),
       Governance |-> Number(toFixed(governanceTotal, 2)) ]]

\* Array.from({ length: 12 }, (_, i) => ...): index i + 1 here is month i + 1
RagProjection(oneTimeSetupTotal, monthlyOpsTotal, monthlyGovernanceTotal) ==
  [month \in 1..12 |->
     [ name |-> <<"M", month>>,
       Setup |-> Number(toFixed(oneTimeSetupTotal, 2)),
       Operations |-> Number(toFixed(Mul(monthlyOpsTotal, Num(month)), 2)),
       Governance |->
         Number(toFixed(Mul(monthlyGovernanceTotal, Num(month)), 2)) ]]

\* the storage size of the earlier revision of RagCalc: no factor of 10
RagStorageSizeGbPlain(vectorDataBytes, metadataOverheadPct) ==
  Div(Mul(vectorDataBytes, Add(Num(1), Div(metadataOverheadPct, Num(100)))),
      Num(1024 * 1024 * 1024))

\* (vectorDataBytes * (1 + metadataOverheadPct / 100) * 10) / (1024 * 1024 * 1024)
RagStorageSizeGb(vectorDataBytes, metadataOverheadPct) ==
  Div(Mul(Mul(vectorDataBytes, Add(Num(1), Div(metadataOverheadPct, Num(100)))),
          Num(10)),
      Num(1024 * 1024 * 1024))

\* the queries charged without the cache discount
RagEffectiveQueriesRaw(queriesPerMonth, cacheDiscount) == queriesPerMonth

\* queriesPerMonth * (1 - cacheDiscount)
RagEffectiveQueries(queriesPerMonth, cacheDiscount) ==
  Mul(queriesPerMonth, Sub(Num(1), cacheDiscount))

RagLocals(inputs) ==
  LET selectedEmbedding == FindOrFirst(EMBEDDING_MODELS, inputs.ingestionModelId)
      selectedInference == FindOrFirst(INFERENCE_MODELS, inputs.inferenceModelId)
      numDocs == safeToNumber(inputs.numDocs, Num(0))
      tokensPerDoc == safeToNumber(inputs.tokensPerDoc, Num(0))
      parsingCostPerDoc == safeToNumber(inputs.parsingCostPerDoc, Num(0))
      chunkSize == RagChunkSize(inputs)
      overlapPct == safeToNumber(inputs.overlapPct, Num(0))
      metadataOverheadPct == safeToNumber(inputs.metadataOverheadPct, Num(0))
      queriesPerMonth == safeToNumber(inputs.queriesPerMonth, Num(0))
      avgQueryTokens == safeToNumber(inputs.avgQueryTokens, Num(0))
      retrievedChunks == safeToNumber(inputs.retrievedChunks, Num(0))
      avgAnswerTokens == safeToNumber(inputs.avgAnswerTokens, Num(0))
      cacheHitRatePct == safeToNumber(inputs.cacheHitRatePct, Num(0))
      managedDbCostPer1kVectors ==
        safeToNumber(inputs.managedDbCostPer1kVectors, Num(0))
      rerankerCostPer1k == safeToNumber(inputs.rerankerCostPer1k, Num(0))
      monitoringCostPer1k == safeToNumber(inputs.monitoringCostPer1k, Num(0))
      evalRunsPerMonth == safeToNumber(inputs.evalRunsPerMonth, Num(0))
      evalTokensPerRun == safeToNumber(inputs.evalTokensPerRun, Num(0))
      humanReviewHours == safeToNumber(inputs.humanReviewHours, Num(0))
      humanHourlyRate == safeToNumber(inputs.humanHourlyRate, Num(0))
      reindexFrequencyPerYear ==
        safeToNumber(inputs.reindexFrequencyPerYear, Num(0))

      totalTokensBase == Mul(numDocs, tokensPerDoc)
      effectiveTokensAfterOverlap ==
        Mul(totalTokensBase, Add(Num(1), Div(overlapPct, Num(100))))
      totalChunks ==
        OrElse(Ceil(Div(effectiveTokensAfterOverlap, chunkSize)), Num(0))

      oneTimeParsingCost == Mul(numDocs, parsingCostPerDoc)
      embCostRate ==
        safeToNumber(JsNumber(selectedEmbedding.costPerMillionTokens), Num(0))
      oneTimeEmbeddingCost ==
        Mul(Div(effectiveTokensAfterOverlap, Million), embCostRate)
      oneTimeSetupTotal == Add(oneTimeParsingCost, oneTimeEmbeddingCost)

      vectorDataBytes ==
        Mul(Mul(totalChunks,
                safeToNumber(JsNumber(selectedEmbedding.dimension), Num(0))),
            Num(4))
      storageSizeGb == RagStorageSizeGb(vectorDataBytes, metadataOverheadPct)

      queryEmbeddingCostMonthly ==
        Mul(Div(Mul(queriesPerMonth, avgQueryTokens), Million), embCostRate)
      dbOpsMonthly == Mul(Div(totalChunks, Num(1000)), managedDbCostPer1kVectors)
      rerankMonthly ==
        IF inputs.rerankerEnabled
        THEN Mul(Div(queriesPerMonth, Num(1000)), rerankerCostPer1k)
        ELSE Num(0)

      tokensPerQueryIn == Add(avgQueryTokens, Mul(retrievedChunks, chunkSize))
      cacheDiscount == Div(cacheHitRatePct, Num(100))
      effectiveQueries == RagEffectiveQueries(queriesPerMonth, cacheDiscount)

      infInputRate ==
        safeToNumber(JsNumber(selectedInference.costPerMillionInputTokens), Num(0))
      infOutputRate ==
        safeToNumber(JsNumber(selectedInference.costPerMillionOutputTokens), Num(0))

      monthlyInferenceInputCost ==
        Mul(Div(Mul(effectiveQueries, tokensPerQueryIn), Million), infInputRate)
      monthlyInferenceOutputCost ==
        Mul(Div(Mul(effectiveQueries, avgAnswerTokens), Million), infOutputRate)

      monthlyOpsTotal ==
        Add(Add(Add(Add(queryEmbeddingCostMonthly, dbOpsMonthly), rerankMonthly),
                monthlyInferenceInputCost),
            monthlyInferenceOutputCost)
      unitCostPerInteraction == RagUnitCost(monthlyOpsTotal, queriesPerMonth)

      monitoringMonthly == Mul(Div(queriesPerMonth, Num(1000)), monitoringCostPer1k)
      evalMonthly ==
        Mul(Div(Mul(evalRunsPerMonth, evalTokensPerRun), Million), infInputRate)
      humanMonthly == Mul(humanReviewHours, humanHourlyRate)
      reindexMonthly == Mul(oneTimeSetupTotal, Div(reindexFrequencyPerYear, Num(12)))

      monthlyGovernanceTotal ==
        Add(Add(Add(monitoringMonthly, evalMonthly), humanMonthly), reindexMonthly)

      annualizedTotal ==
        RagAnnualizedTotal(oneTimeSetupTotal, monthlyOpsTotal,
                           monthlyGovernanceTotal)

      projection ==
        RagProjection(oneTimeSetupTotal, monthlyOpsTotal, monthlyGovernanceTotal)
  IN  [ chunkSize |-> chunkSize,
        queriesPerMonth |-> queriesPerMonth,
        effectiveTokensAfterOverlap |-> effectiveTokensAfterOverlap,
        effectiveQueries |-> effectiveQueries,
        tokensPerQueryIn |-> tokensPerQueryIn,
        monthlyInferenceInputCost |-> monthlyInferenceInputCost,
        monthlyInferenceOutputCost |-> monthlyInferenceOutputCost,
        vectorDataBytes |-> vectorDataBytes,
        oneTimeSetupTotal |-> oneTimeSetupTotal,
        monthlyOpsTotal |-> monthlyOpsTotal,
        monthlyGovernanceTotal |-> monthlyGovernanceTotal,
        annualizedTotal |-> annualizedTotal,
        unitCostPerInteraction |-> unitCostPerInteraction,
        totalChunks |-> totalChunks,
        storageSizeGb |-> storageSizeGb,
        projection |-> projection,
        breakout |->
          [ parsing |-> oneTimeParsingCost,
            embedding |-> oneTimeEmbeddingCost,
            inference |->
              Add(monthlyInferenceInputCost, monthlyInferenceOutputCost),
            db |-> dbOpsMonthly,
            rerank |-> rerankMonthly,
            gov |-> monthlyGovernanceTotal,
            queryEmbedding |-> queryEmbeddingCostMonthly ] ]

\* the record the useMemo returns
RagResultFields ==
  { "oneTimeSetupTotal", "monthlyOpsTotal", "monthlyGovernanceTotal",
    "annualizedTotal", "unitCostPerInteraction", "totalChunks",
    "storageSizeGb", "projection", "breakout" }

RagResults(inputs) ==
  LET l == RagLocals(inputs) IN [f \in RagResultFields |-> l[f]]

(***************************************************************************)
(* Translation cost engine: TranslationCalc.results.  The fields of        *)
(* TranslationInputs are used as they are (no normalisation).              *)
(***************************************************************************)
DEFAULT_TRANSLATION_INPUTS ==
  [ modelId |-> "gemini-3-flash-preview",
    charsPerDoc |-> Num(2500),
    numDocs |-> Num(1000),
    monthlyGrowth |-> Num(5),
    numLanguages |-> Num(2),
    qualityTier |-> "basic",
    baseCostPer1kChars |-> Fin(15, 100000),
    humanReviewCostPer1kChars |-> Fin(5, 100) ]

\* tierConfig with the percentages of the labels in place of the fractions
tierConfigPercent(tier) ==
  CASE tier = "none" -> Num(0)
    [] tier = "basic" -> Num(3)
    [] tier = "full" -> Num(20)

\* tierConfig[tier].pct
tierConfig(tier) ==
  CASE tier = "none" -> Num(0)
    [] tier = "basic" -> Fin(3, 100)
    [] tier = "full" -> Fin(20, 100)

validCounts == {Num(1), Num(3), Num(10), Num(20)}

\* langMultiplierOf without the snap to a valid tier
langMultiplierUnchecked(inputs) == inputs.numLanguages

\* validCounts.includes(inputs.numLanguages) ? inputs.numLanguages : 1
langMultiplierOf(inputs) ==
  IF inputs.numLanguages \in validCounts THEN inputs.numLanguages ELSE Num(1)

\* TransProjection with one more month elapsed at every point
TransProjectionOffByOne(initialApi, initialQa, monthlyApi, monthlyQa) ==
  [m \in 1..12 |->
     LET monthMultiplier == Num(m)
         cumulativeApi == Add(initialApi, Mul(monthlyApi, monthMultiplier))
         cumulativeQa == Add(initialQa, Mul(monthlyQa, monthMultiplier))
     IN  [ month |-> <<"M", m>>,
           api |-> Number(toFixed(cumulativeApi, 2)),
           qa |-> Number(toFixed(cumulativeQa, 2)),
           total |-> Number(toFixed(Add(cumulativeApi, cumulativeQa), 2)) ]]

\* the 12 points of the translation projection; point i + 1 is index i
TransProjection(initialApiCost, initialQaCost, monthlyApiCost, monthlyQaCost) ==
  [m \in 1..12 |->
     LET monthMultiplier == Num(m - 1)
         cumulativeApi == Add(initialApiCost, Mul(monthlyApiCost, monthMultiplier))
         cumulativeQa == Add(initialQaCost, Mul(monthlyQaCost, monthMultiplier))
     IN  [ month |-> <<"M", m>>,
           api |-> Number(toFixed(cumulativeApi, 2)),
           qa |-> Number(toFixed(cumulativeQa, 2)),
           total |-> Number(toFixed(Add(cumulativeApi, cumulativeQa), 2)) ]]

TransResults(inputs) ==
  LET langMultiplier == langMultiplierOf(inputs)
      baseInitialChars == Mul(inputs.numDocs, inputs.charsPerDoc)
      totalInitialChars == Mul(baseInitialChars, langMultiplier)
      initialApiCost ==
        Mul(Div(totalInitialChars, Num(1000)), inputs.baseCostPer1kChars)
      initialQaChars == Mul(totalInitialChars, tierConfig(inputs.qualityTier))
      initialQaCost ==
        Mul(Div(initialQaChars, Num(1000)), inputs.humanReviewCostPer1kChars)
      initialTotal == Add(initialApiCost, initialQaCost)
      monthlyNewDocs == Mul(inputs.numDocs, Div(inputs.monthlyGrowth, Num(100)))
      monthlyNewCharsBase == Mul(monthlyNewDocs, inputs.charsPerDoc)
      monthlyNewCharsTotal == Mul(monthlyNewCharsBase, langMultiplier)
      monthlyApiCost ==
        Mul(Div(monthlyNewCharsTotal, Num(1000)), inputs.baseCostPer1kChars)
      monthlyQaChars == Mul(monthlyNewCharsTotal, tierConfig(inputs.qualityTier))
      monthlyQaCost ==
        Mul(Div(monthlyQaChars, Num(1000)), inputs.humanReviewCostPer1kChars)
      monthlyTotal == Add(monthlyApiCost, monthlyQaCost)
      projection ==
        TransProjection(initialApiCost, initialQaCost, monthlyApiCost,
                        monthlyQaCost)
      totalYear1 == projection[12].total
  IN  [ totalInitialChars |-> totalInitialChars,
        initialApiCost |-> initialApiCost,
        initialQaCost |-> initialQaCost,
        initialTotal |-> initialTotal,
        monthlyNewCharsTotal |-> monthlyNewCharsTotal,
        monthlyApiCost |-> monthlyApiCost,
        monthlyQaCost |-> monthlyQaCost,
        monthlyTotal |-> monthlyTotal,
        projection |-> projection,
        totalYear1 |-> totalYear1,
        langMultiplier |-> langMultiplier ]

\* handleExport: csvRows, the table before its cells are joined with commas
TransCsvRows(inputs, results) ==
  LET hits == IndexOfId(TRANSLATION_MODELS, inputs.modelId)
      selectedModel ==
        IF hits = {} THEN inputs.modelId
        ELSE TRANSLATION_MODELS[CHOOSE i \in hits : \A j \in hits : i <= j].name
  IN  << <<"Metric", "Value">>,
         <<"AI Model", selectedModel>>,
         <<"Language Scope (Multiplier)", results.langMultiplier>>,
         <<"Document Volume", inputs.numDocs>>,
         <<"Chars per Document", inputs.charsPerDoc>>,
         <<"Monthly Content Growth (%)", inputs.monthlyGrowth>>,
         <<"Quality Tier", inputs.qualityTier>>,
         <<"Initial Setup Cost (USD)", toFixed(results.initialTotal, 2)>>,
         <<"Monthly Recurring Cost (USD)", toFixed(results.monthlyTotal, 2)>>,
         <<"Year 1 Cumulative Spend (USD)", toFixed(results.totalYear1, 2)>>,
         <<"Total Initial Characters", results.totalInitialChars>> >>

(***************************************************************************)
(* ROI projection engine: RoiPanel.results, fed by                         *)
(* App.currentAiMonthlyCost; App.projectionData is the copy of the         *)
(* projection that App sends to the narrative collaborator.                *)
(***************************************************************************)
DEFAULT_ROI_INPUTS ==
  [ timeSavedPerQuery |-> Num(4),
    requestsPerUser |-> Num(120),
    employeeHourlyRate |-> Num(85),
    numUsers |-> Num(200),
    avgTokensPerRequest |-> Num(1800),
    costPerMillionTokens |-> Fin(250, 100),
    numIndexedDocs |-> Num(25000),
    reindexingFrequency |-> Num(12),
    embeddingCostPerMillion |-> Fin(10, 100),
    vectorDbBaseMonthly |-> Num(850),
    percentOutputsReviewed |-> Num(5),
    reviewTimePerOutput |-> Num(4),
    reviewerHourlyRate |-> Num(110) ]

\* models.find(m => m.id === id)?.[field] || 0
RateOrZero(models, id, field) ==
  LET hits == IndexOfId(models, id)
  IN  IF hits = {} THEN Num(0)
      ELSE OrElse(models[CHOOSE i \in hits : \A j \in hits : i <= j][field],
                  Num(0))

\* a field of RagInputs read by App without normalisation (type number)
NumField(v) == v.num

\* currentAiMonthlyCost without its branch for the ROI tab
currentAiMonthlyCostNoRoiBranch(tab, trans, rag, roi) ==
  IF tab = "TRANSLATION"
  THEN Mul(Div(Mul(Mul(trans.numDocs, trans.charsPerDoc),
                   Div(trans.monthlyGrowth, Num(100))),
               Million),
           RateOrZero(TRANSLATION_MODELS, trans.modelId, "costPerMillionChars"))
  ELSE Mul(Div(Mul(NumField(rag.queriesPerMonth),
                   Add(NumField(rag.avgQueryTokens),
                       Mul(NumField(rag.retrievedChunks),
                           NumField(rag.chunkSize)))),
               Million),
           RateOrZero(INFERENCE_MODELS, rag.inferenceModelId,
                      "costPerMillionInputTokens"))

\* App.currentAiMonthlyCost
currentAiMonthlyCost(tab, trans, rag, roi) ==
  IF tab = "TRANSLATION"
  THEN Mul(Div(Mul(Mul(trans.numDocs, trans.charsPerDoc),
                   Div(trans.monthlyGrowth, Num(100))),
               Million),
           RateOrZero(TRANSLATION_MODELS, trans.modelId, "costPerMillionChars"))
  ELSE IF tab = "ROI"
  THEN LET totalRequests == Mul(roi.numUsers, roi.requestsPerUser)
           inferenceCost ==
             Mul(Div(Mul(totalRequests, roi.avgTokensPerRequest), Million),
                 roi.costPerMillionTokens)
           reindexMonthlyCost ==
             Mul(Mul(Div(Mul(roi.numIndexedDocs, Num(800)), Million),
                     roi.embeddingCostPerMillion),
                 Div(roi.reindexingFrequency, Num(12)))
           dataCost == Add(roi.vectorDbBaseMonthly, reindexMonthlyCost)
           reviewedRequests ==
             Mul(totalRequests, Div(roi.percentOutputsReviewed, Num(100)))
           governanceCost ==
             Mul(Mul(reviewedRequests, Div(roi.reviewTimePerOutput, Num(60))),
                 roi.reviewerHourlyRate)
       IN  Add(Add(inferenceCost, dataCost), governanceCost)
  ELSE Mul(Div(Mul(NumField(rag.queriesPerMonth),
                   Add(NumField(rag.avgQueryTokens),
                       Mul(NumField(rag.retrievedChunks),
                           NumField(rag.chunkSize)))),
               Million),
           RateOrZero(INFERENCE_MODELS, rag.inferenceModelId,
                      "costPerMillionInputTokens"))

\* RoiProjectionPoint with the net gain of one month less
RoiProjectionPointLagging(aiCostMonthly, monthlyValue, i) ==
  [ cost |-> Number(toFixed(Mul(aiCostMonthly, Num(i + 1)), 0)),
    value |-> Number(toFixed(Mul(monthlyValue, Num(i + 1)), 0)),
    netGain |->
      Number(toFixed(Mul(Sub(monthlyValue, aiCostMonthly), Num(i)), 0)) ]

\* the 12 points shared by RoiPanel.results.projection and App.projectionData
\* (they differ in the labels only)
RoiProjectionPoint(aiCostMonthly, monthlyValue, i) ==
  [ cost |-> Number(toFixed(Mul(aiCostMonthly, Num(i + 1)), 0)),
    value |-> Number(toFixed(Mul(monthlyValue, Num(i + 1)), 0)),
    netGain |->
      Number(toFixed(Mul(Sub(monthlyValue, aiCostMonthly), Num(i + 1)), 0)) ]

\* App.projectionData (netGain is called profit there); index i is point i + 1
projectionDataOf(roi, aiCostMonthly) ==
  LET totalRequestsMonthly == Mul(roi.numUsers, roi.requestsPerUser)
      hoursSavedMonthly ==
        Mul(Div(roi.timeSavedPerQuery, Num(60)), totalRequestsMonthly)
      monthlyValue == Mul(hoursSavedMonthly, roi.employeeHourlyRate)
  IN  [m \in 1..12 |->
         LET pt == RoiProjectionPoint(aiCostMonthly, monthlyValue, m - 1)
         IN  [ month |-> <<"Month ", m>>, cost |-> pt.cost, value |-> pt.value,
               profit |-> pt.netGain ]]

\* the "not computable" marker of roiRatio
EmDash == [t |-> "string", lit |-> "em dash"]

\* RoiRatio without the guard on aiCostMonthly
RoiRatioUnguarded(monthlyValue, aiCostMonthly) ==
  toFixed(Div(monthlyValue, aiCostMonthly), 2)

\* aiCostMonthly > 0 ? (monthlyValue / aiCostMonthly).toFixed(2) : "—"
RoiRatio(monthlyValue, aiCostMonthly) ==
  IF Gt(aiCostMonthly, Num(0))
  THEN toFixed(Div(monthlyValue, aiCostMonthly), 2)
  ELSE EmDash

\* monthlyValue - aiCostMonthly
NetRoi(monthlyValue, aiCostMonthly) == Sub(monthlyValue, aiCostMonthly)

RoiResults(inputs, aiCostMonthly) ==
  LET totalRequestsMonthly == Mul(inputs.numUsers, inputs.requestsPerUser)
      totalMinutesMonthly == Mul(inputs.timeSavedPerQuery, totalRequestsMonthly)
      hoursSavedMonthly == Div(totalMinutesMonthly, Num(60))
      monthlyValue == Mul(hoursSavedMonthly, inputs.employeeHourlyRate)
      inferenceCost ==
        Mul(Div(Mul(totalRequestsMonthly, inputs.avgTokensPerRequest), Million),
            inputs.costPerMillionTokens)
      reindexCost ==
        Mul(Mul(Div(Mul(inputs.numIndexedDocs, Num(800)), Million),
                inputs.embeddingCostPerMillion),
            Div(inputs.reindexingFrequency, Num(12)))
      orchestrationCost == Add(inputs.vectorDbBaseMonthly, reindexCost)
      reviewedRequests ==
        Mul(totalRequestsMonthly, Div(inputs.percentOutputsReviewed, Num(100)))
      governanceCost ==
        Mul(Mul(reviewedRequests, Div(inputs.reviewTimePerOutput, Num(60))),
            inputs.reviewerHourlyRate)
      netRoi == NetRoi(monthlyValue, aiCostMonthly)
      projection ==
        [m \in 1..12 |->
           LET pt == RoiProjectionPoint(aiCostMonthly, monthlyValue, m - 1)
           IN  [ month |-> <<"M", m>>, cost |-> pt.cost, value |-> pt.value,
                 netGain |-> pt.netGain ]]
      valuePerMin ==
        IF Gt(inputs.timeSavedPerQuery, Num(0))
        THEN Div(monthlyValue, inputs.timeSavedPerQuery)
        ELSE Num(0)
      breakEvenTime ==
        IF Gt(valuePerMin, Num(0)) THEN Div(aiCostMonthly, valuePerMin)
        ELSE Num(0)
      targetReviewRate ==
        IF Ge(inputs.percentOutputsReviewed, Num(15))
        THEN Round(Mul(inputs.percentOutputsReviewed, Fin(3, 2)))
        ELSE Num(15)
      govCostTarget ==
        Mul(Mul(Mul(totalRequestsMonthly, Div(targetReviewRate, Num(100))),
                Div(inputs.reviewTimePerOutput, Num(60))),
            inputs.reviewerHourlyRate)
      totalCostTarget == Add(Add(inferenceCost, orchestrationCost), govCostTarget)
      users60 == Floor(Mul(inputs.numUsers, Fin(6, 10)))
      val60 == Mul(monthlyValue, Fin(6, 10))
      inf60 == Mul(inferenceCost, Fin(6, 10))
      gov60 == Mul(governanceCost, Fin(6, 10))
      cost60 == Add(Add(inf60, orchestrationCost), gov60)
      netGain60 == Sub(val60, cost60)
      roiRatio == RoiRatio(monthlyValue, aiCostMonthly)
  IN  [ monthlyValue |-> monthlyValue,
        netRoi |-> netRoi,
        projection |-> projection,
        totalRequestsMonthly |-> totalRequestsMonthly,
        totalMinutesMonthly |-> totalMinutesMonthly,
        hoursSavedMonthly |-> hoursSavedMonthly,
        breakdown |->
          [ inference |-> inferenceCost,
            orchestration |-> orchestrationCost,
            governance |-> governanceCost ],
        sensitivity |->
          [ breakEvenTime |-> breakEvenTime,
            targetReviewRate |-> targetReviewRate,
            totalCostTarget |-> totalCostTarget,
            users60 |-> users60,
            netGain60 |-> netGain60,
            roiRatio |-> roiRatio ] ]

\* calc charging inference and governance for every user, adopted or not
RoiScenarioCalcFullCost(inputs, orchestration, timeSaved, adoption) ==
  LET vol == Mul(Mul(inputs.numUsers, adoption), inputs.requestsPerUser)
      all == Mul(inputs.numUsers, inputs.requestsPerUser)
      hrs == Div(Mul(timeSaved, vol), Num(60))
      value == Mul(hrs, inputs.employeeHourlyRate)
      inf == Mul(Div(Mul(all, inputs.avgTokensPerRequest), Million),
                 inputs.costPerMillionTokens)
      gov == Mul(Mul(Mul(all, Div(inputs.percentOutputsReviewed, Num(100))),
                     Div(inputs.reviewTimePerOutput, Num(60))),
                 inputs.reviewerHourlyRate)
  IN  Sub(value, Add(Add(inf, orchestration), gov))

\* scenarios: calc(timeSaved, adoption)
RoiScenarioCalc(inputs, orchestration, timeSaved, adoption) ==
  LET vol == Mul(Mul(inputs.numUsers, adoption), inputs.requestsPerUser)
      hrs == Div(Mul(timeSaved, vol), Num(60))
      value == Mul(hrs, inputs.employeeHourlyRate)
      inf == Mul(Div(Mul(vol, inputs.avgTokensPerRequest), Million),
                 inputs.costPerMillionTokens)
      gov == Mul(Mul(Mul(vol, Div(inputs.percentOutputsReviewed, Num(100))),
                     Div(inputs.reviewTimePerOutput, Num(60))),
                 inputs.reviewerHourlyRate)
      totalCost == Add(Add(inf, orchestration), gov)
  IN  Sub(value, totalCost)

\* RoiPanel.scenarios: Conservative, Base Case, Optimistic
RoiScenarios(inputs, results) ==
  [ Conservative |->
      RoiScenarioCalc(inputs, results.breakdown.orchestration,
                      Mul(inputs.timeSavedPerQuery, Fin(6, 10)), Fin(7, 10)),
    Base |-> results.netRoi,
    Optimistic |->
      RoiScenarioCalc(inputs, results.breakdown.orchestration,
                      Mul(inputs.timeSavedPerQuery, Fin(13, 10)), Num(1)) ]

(***************************************************************************)
(* geminiService: withRetry, formatError and the four narrative functions. *)
(* An error is what generateContent rejects with: an Error object with a   *)
(* message and possibly a status, or any other thrown value.  The text of  *)
(* a response and the strings returned to the caller are opaque.           *)
(***************************************************************************)
JsError(message, status) ==
  [t |-> "object", message |-> message, status |-> status]

Str429 == <<"4", "2", "9">>

StrResourceExhausted ==
  << "R", "E", "S", "O", "U", "R", "C", "E", "_",
     "E", "X", "H", "A", "U", "S", "T", "E", "D" >>

\* String.prototype.includes
Includes(s, sub) ==
  \E i \in 0..(Len(s) - Len(sub)) : SubSeq(s, i + 1, i + Len(sub)) = sub

\* String(error?.message || error)
ErrorStr(error) ==
  IF error.t = "object"
  THEN IF error.message.t = "string" /\ error.message.str # <<>>
       THEN error.message.str
       ELSE <<"E", "r", "r", "o", "r">>
  ELSE IF error.t = "string" THEN error.str
  ELSE <<"u", "n", "d", "e", "f", "i", "n", "e", "d">>

\* error?.status === 429
StatusIs429(error) == error.t = "object" /\ error.status = JsNumber(Num(429))

\* isRateLimit, as computed in withRetry and in formatError
IsRateLimit(error) ==
  \/ Includes(ErrorStr(error), Str429)
  \/ Includes(ErrorStr(error), StrResourceExhausted)
  \/ StatusIs429(error)

RateLimitMessage ==
  "Insight temporarily unavailable due to API limits. Please try again shortly."

GenericMessage == "Analysis could not be generated right now. Please retry."

\* formatError that does not tell a rate limit from other failures
formatErrorGeneric(error) == GenericMessage

formatError(error) ==
  IF IsRateLimit(error) THEN RateLimitMessage ELSE GenericMessage

\* withRetry's defaults
DefaultRetries == 2

DefaultDelay == 1000

\* withRetry retrying whatever the error is
ShouldRetryAnyError(retries, error) == retries > 0

\* if (retries > 0 && isRateLimit)
ShouldRetry(retries, error) == retries > 0 /\ IsRateLimit(error)

ServiceFns ==
  {"getAiAnalysis", "getRoiExecutiveInsight", "getRoiGraphInsight",
   "getRoiNarrative"}

\* response.text returned as it is, with no default
ServiceOnTextRaw(fn, text) == text

\* response.text || <the function's default>
ServiceOnText(fn, text) ==
  IF text # "" THEN text
  ELSE CASE fn = "getAiAnalysis" -> "Analysis complete but no text returned."
         [] fn = "getRoiExecutiveInsight" -> "Insight generated."
         [] OTHER -> ""

\* every function reporting its failure through formatError
ServiceOnErrorFormatted(fn, error) == formatError(error)

\* the catch block of each function
ServiceOnError(fn, error) ==
  IF fn \in {"getAiAnalysis", "getRoiExecutiveInsight"} THEN formatError(error)
  ELSE ""

(***************************************************************************)
(* State.  App holds the active tab and the three parameter records.  The  *)
(* results of the calculators are useMemo values: functions of the state,  *)
(* recomputed in the render that follows every change, and present only    *)
(* while the calculator is mounted.  normVal, normFallback and normOut are *)
(* the arguments and the result of one call of safeToNumber (normOut is    *)
(* <<>> before the call returns).                                          *)
(***************************************************************************)
VARIABLES activeTab, transInputs, ragInputs, roiInputs,
          normVal, normFallback, normOut,
          csvRows, call,
          aiInsight, isAnalyzing, analyses,
          graphInsight, isNarrating, activeEffs, timers, fetches, sinceChange

appVars == <<activeTab, transInputs, ragInputs, roiInputs>>
normVars == <<normVal, normFallback, normOut>>
exportVars == <<csvRows>>
svcVars == <<call>>
narrVars == <<aiInsight, isAnalyzing, analyses>>
insightVars ==
  <<graphInsight, isNarrating, activeEffs, timers, fetches, sinceChange>>
sideVars == <<exportVars, svcVars, narrVars>>
vars == <<appVars, normVars, sideVars, insightVars>>

\* the results of a calculator that is not rendered
NotMounted == [mounted |-> FALSE]

\* TranslationCalc.results
transResults ==
  IF activeTab = "TRANSLATION" THEN TransResults(transInputs) ELSE NotMounted

\* RagCalc.results
ragResults == IF activeTab = "RAG" THEN RagResults(ragInputs) ELSE NotMounted

\* the aiCostMonthly prop of RoiPanel
aiCostMonthly ==
  currentAiMonthlyCost(activeTab, transInputs, ragInputs, roiInputs)

\* RoiPanel.results
roiResults ==
  IF activeTab = "ROI" THEN RoiResults(roiInputs, aiCostMonthly) ELSE NotMounted

\* RoiPanel.scenarios
scenarios ==
  IF activeTab = "ROI" THEN RoiScenarios(roiInputs, roiResults) ELSE NotMounted

\* App.projectionData
projectionData == projectionDataOf(roiInputs, aiCostMonthly)

(***************************************************************************)
(* The narrative state.  App: aiInsight, isAnalyzing and the calls of      *)
(* triggerAnalysis that have not returned (analyses, in the order they     *)
(* were made).  RoiPanel: graphInsight, isNarrating, and the runs of its   *)
(* effect: each run has its own `active` flag and timeout; activeEffs are  *)
(* the runs whose flag is still true, timers the timeouts not yet fired or *)
(* cleared, fetches the calls of getRoiGraphInsight that have not          *)
(* returned.  An insight is kept with the data it was generated from       *)
(* (`from`); `latest` tells whether it answers the most recent request.    *)
(* sinceChange is the time since the effect last ran, up to DebounceMs.    *)
(***************************************************************************)
DebounceMs == 1500

NoData == <<>>

\* useState<string>(""), useState<boolean>(false)
NoInsight == [text |-> "", from |-> NoData, latest |-> TRUE]

NarrIdle ==
  /\ aiInsight = NoInsight
  /\ isAnalyzing = FALSE
  /\ analyses = <<>>

\* RoiPanel is not mounted
InsightIdle ==
  /\ graphInsight = [text |-> <<>>, from |-> NoData]
  /\ isNarrating = FALSE
  /\ activeEffs = {}
  /\ timers = {}
  /\ fetches = {}
  /\ sinceChange = 0

\* the argument triggerAnalysis passes to the narrative function
AnalysisData(tab, trans, rag, roi) ==
  CASE tab = "ROI" ->
         projectionDataOf(roi, currentAiMonthlyCost(tab, trans, rag, roi))
    [] tab = "TRANSLATION" ->
         [ inputs |-> trans,
           estimatedMonthlyCost |-> currentAiMonthlyCost(tab, trans, rag, roi) ]
    [] tab = "RAG" -> [inputs |-> rag]
    [] OTHER -> NoData

\* an identifier for a new run of the effect
FreshEff == CHOOSE e \in 1..(Cardinality(fetches) + 1) :
              \A f \in fetches : f.eff # e

\* cleanup that leaves the flags of the earlier runs true
CleanupActiveKept(effs) == effs

\* the effect's cleanup: active = false
CleanupActive(effs) == {}

\* cleanup that leaves the earlier timeouts pending
CleanupTimersKept(pending) == pending

\* the effect's cleanup: clearTimeout(timeout)
CleanupTimers(pending) == {}

\* text?.replace(/^Graph Insight:?\s*/i, '').trim(), on a text given as its
\* words
CleanInsight(text) ==
  IF text # <<>> /\ Head(text) \in {"Graph Insight:", "graph insight"}
  THEN Tail(text)
  ELSE text

\* two positions of one slider of each calculator
AppSliderSamples ==
  [ TRANSLATION |-> {Num(1000), Num(100)},
    RAG |-> {JsNumber(Num(1000)), JsNumber(Num(100))},
    ROI |-> {Num(200), Num(1)} ]

\* the projection RoiPanel shows for the given parameters
RoiPanelProjectionOf(trans, rag, roi) ==
  RoiResults(roi, currentAiMonthlyCost("ROI", trans, rag, roi)).projection

\* RoiPanelProjectionOf at the two positions of the ROI slider with the other
\* parameters at their defaults, computed once
ProjectionAtHigh ==
  RoiPanelProjectionOf(DEFAULT_TRANSLATION_INPUTS, DEFAULT_RAG_INPUTS,
                       [DEFAULT_ROI_INPUTS EXCEPT !.numUsers = Num(200)])

ProjectionAtLow ==
  RoiPanelProjectionOf(DEFAULT_TRANSLATION_INPUTS, DEFAULT_RAG_INPUTS,
                       [DEFAULT_ROI_INPUTS EXCEPT !.numUsers = Num(1)])

\* RoiPanelProjectionOf, looked up where it was computed already
RoiPanelProjection(trans, rag, roi) ==
  IF trans = DEFAULT_TRANSLATION_INPUTS /\ rag = DEFAULT_RAG_INPUTS
  THEN IF roi = [DEFAULT_ROI_INPUTS EXCEPT !.numUsers = Num(200)]
       THEN ProjectionAtHigh
       ELSE IF roi = [DEFAULT_ROI_INPUTS EXCEPT !.numUsers = Num(1)]
       THEN ProjectionAtLow
       ELSE RoiPanelProjectionOf(trans, rag, roi)
  ELSE RoiPanelProjectionOf(trans, rag, roi)

\* RoiPanel's effect runs for a new projection: the cleanup of the previous
\* run, then a new `active` flag and a new timeout
InsightEffectRuns(projection) ==
  /\ activeEffs' = CleanupActive(activeEffs) \cup {FreshEff}
  /\ timers' = CleanupTimers(timers)
                 \cup {[eff |-> FreshEff, left |-> DebounceMs,
                        projection |-> projection]}
  /\ sinceChange' = 0
  /\ UNCHANGED <<graphInsight, isNarrating, fetches>>

\* RoiPanel is unmounted: the cleanup of the last run; its state is gone
InsightUnmount ==
  /\ activeEffs' = CleanupActive(activeEffs)
  /\ timers' = CleanupTimers(timers)
  /\ graphInsight' = [text |-> <<>>, from |-> NoData]
  /\ isNarrating' = FALSE
  /\ sinceChange' = 0
  /\ UNCHANGED fetches

NormIdle ==
  /\ normVal = JsUndefined
  /\ normFallback = Num(0)
  /\ normOut = <<>>

\* no file is being offered for download
ExportIdle == csvRows = <<>>

\* no call of a narrative function is under way
CallIdle == [phase |-> "idle"]

SideIdle == ExportIdle /\ call = CallIdle /\ NarrIdle

\* RoiPanel just mounted with the given parameters: its effect has run once
InsightMounted(projection) ==
  /\ graphInsight = [text |-> <<>>, from |-> NoData]
  /\ isNarrating = FALSE
  /\ activeEffs = {1}
  /\ timers = {[eff |-> 1, left |-> DebounceMs, projection |-> projection]}
  /\ fetches = {}
  /\ sinceChange = 0

(***************************************************************************)
(* The normalisation utility on its own: every kind of argument.           *)
(***************************************************************************)
MaxStrLen == 3

NormAlphabet == {"$", ",", " ", "1", "5", ".", "-", "a"}

RECURSIVE StringsUpTo(_)
StringsUpTo(n) ==
  IF n = 0 THEN {<<>>}
  ELSE LET shorter == StringsUpTo(n - 1)
       IN  shorter \cup {Append(s, c) : s \in shorter, c \in NormAlphabet}

NormSampleStrings ==
  { <<"$", "1", ",", "2", "3", "4", ".", "5", "0">>,
    <<"a", "b", "c">>,
    <<"1", "e", "3">>,
    <<"2", "5", "e", "-", "2">>,
    <<"1", "e", "9", "9", "9">>,
    <<"-", "$", "I", "n", "f", "i", "n", "i", "t", "y">>,
    InfinityWord,
    <<"N", "a", "N">>,
    <<" ", "4", "0", "0", "\t", "k">> }

NormNumbers ==
  { Num(0), Num(400), Num(-7), Fin(5, 2), Fin(-1, 8), NaN, PosInf, NegInf }

NormValues ==
  {JsNumber(x) : x \in NormNumbers}
    \cup {JsString(s) : s \in StringsUpTo(MaxStrLen) \cup NormSampleStrings}
    \cup {JsUndefined, JsNull, JsBoolean(TRUE), JsBoolean(FALSE)}

NormFallbacks == {Num(0), Num(500)}

InitNorm ==
  /\ activeTab = "HOME"
  /\ transInputs = DEFAULT_TRANSLATION_INPUTS
  /\ ragInputs = DEFAULT_RAG_INPUTS
  /\ roiInputs = DEFAULT_ROI_INPUTS
  /\ normVal \in NormValues
  /\ normFallback \in NormFallbacks
  /\ normOut = <<>>
  /\ SideIdle
  /\ InsightIdle

CallSafeToNumber ==
  /\ normOut = <<>>
  /\ normOut' = <<safeToNumber(normVal, normFallback)>>
  /\ UNCHANGED <<normVal, normFallback, appVars, sideVars, insightVars>>

NextNorm == CallSafeToNumber

SpecNorm == InitNorm /\ [][NextNorm]_vars

(***************************************************************************)
(* The RAG calculator on the RAG tab.  The first render may see any        *)
(* RagInputs record; afterwards the controls of the panel change one field *)
(* at a time.                                                              *)
(***************************************************************************)
\* chunk sizes the first render may see
RagChunkSamples ==
  { JsNumber(Num(400)), JsNumber(Num(0)), JsNumber(Num(-100)),
    JsNumber(NaN), JsNumber(PosInf), JsUndefined,
    JsString(<<>>), JsString(<<"a", "b", "c">>),
    JsString(<<"$", "1", ",", "0", "0", "0">>), JsString(<<"0">>) }

\* the other fields the first render may see away from DEFAULT_RAG_INPUTS
\* (one of them at a time)
RagOtherSamples ==
  { <<"numDocs", JsNumber(Num(1000))>>,
    <<"numDocs", JsNumber(Num(0))>>,
    <<"numDocs", JsNumber(Num(-10))>>,
    <<"numDocs", JsString(<<"1", ",", "0", "0", "0">>)>>,
    <<"queriesPerMonth", JsNumber(Num(0))>>,
    <<"queriesPerMonth", JsString(<<"0">>)>>,
    <<"queriesPerMonth", JsNumber(NaN)>>,
    <<"cacheHitRatePct", JsNumber(Num(150))>>,
    <<"parsingCostPerDoc", JsNumber(Num(-1))>>,
    <<"rerankerEnabled", TRUE>> }

RagFirstInputs ==
  { [[DEFAULT_RAG_INPUTS EXCEPT !.chunkSize = c] EXCEPT ![o[1]] = o[2]] :
      c \in RagChunkSamples, o \in RagOtherSamples }

\* positions of the sliders of the panel (each within its min, max and step)
RagSliderSamples ==
  [ numDocs |-> {Num(100)},
    chunkSize |-> {Num(400)},
    queriesPerMonth |-> {Num(100)},
    managedDbCostPer1kVectors |-> {Num(0)} ]

InitRag ==
  /\ activeTab = "RAG"
  /\ transInputs = DEFAULT_TRANSLATION_INPUTS
  /\ ragInputs \in RagFirstInputs
  /\ roiInputs = DEFAULT_ROI_INPUTS
  /\ NormIdle
  /\ SideIdle
  /\ InsightIdle

\* <Slider ... onChange={(v) => setInputs({ ...inputs, field: v })} />
RagSetInputs ==
  /\ activeTab = "RAG"
  /\ \E f \in DOMAIN RagSliderSamples : \E v \in RagSliderSamples[f] :
       ragInputs' = [ragInputs EXCEPT ![f] = JsNumber(v)]
  /\ UNCHANGED <<activeTab, transInputs, roiInputs, normVars, sideVars, insightVars>>

\* <select ... onChange={(e) => setInputs({ ...inputs, inferenceModelId: ... })} />
RagSetInferenceModel ==
  /\ activeTab = "RAG"
  /\ \E id \in {"gemini-3-flash-preview", "claude-3-haiku"} :
       ragInputs' = [ragInputs EXCEPT !.inferenceModelId = id]
  /\ UNCHANGED <<activeTab, transInputs, roiInputs, normVars, sideVars, insightVars>>

NextRag == RagSetInputs \/ RagSetInferenceModel

SpecRag == InitRag /\ [][NextRag]_vars

Presets == {"small", "enterprise", "high-quality", "high-volume"}

\* the fields that each case of applyPreset names after the spread
PresetFields(preset) ==
  CASE preset = "small" ->
         [ numDocs |-> JsNumber(Num(100)),
           queriesPerMonth |-> JsNumber(Num(500)),
           humanReviewHours |-> JsNumber(Num(1)) ]
    [] preset = "enterprise" ->
         [ numDocs |-> JsNumber(Num(100000)),
           queriesPerMonth |-> JsNumber(Num(50000)),
           managedDbCostPer1kVectors |-> JsNumber(Fin(15, 100)),
           humanReviewHours |-> JsNumber(Num(20)) ]
    [] preset = "high-quality" ->
         [ humanReviewHours |-> JsNumber(Num(40)),
           evalRunsPerMonth |-> JsNumber(Num(10)),
           retrievedChunks |-> JsNumber(Num(10)) ]
    [] preset = "high-volume" ->
         [ queriesPerMonth |-> JsNumber(Num(200000)),
           cacheHitRatePct |-> JsNumber(Num(40)) ]

\* { ...base, ...over }
Spread(base, over) ==
  [f \in DOMAIN base \cup DOMAIN over |->
     IF f \in DOMAIN over THEN over[f] ELSE base[f]]

\* applyPreset spreading the record held before
applyPresetKeeping(inputs, preset) == Spread(inputs, PresetFields(preset))

\* the record that applyPreset passes to setInputs:
\* { ...DEFAULT_RAG_INPUTS, <the fields of the case> }; `inputs`, the record
\* held before, is not read
applyPreset(inputs, preset) == Spread(DEFAULT_RAG_INPUTS, PresetFields(preset))

\* <button onClick={() => applyPreset(preset)}>
RagApplyPreset ==
  /\ activeTab = "RAG"
  /\ \E preset \in Presets : ragInputs' = applyPreset(ragInputs, preset)
  /\ UNCHANGED <<activeTab, transInputs, roiInputs, normVars, sideVars, insightVars>>

\* the controls of the panel with the scenario presets
NextPreset == RagSetInputs \/ RagSetInferenceModel \/ RagApplyPreset

SpecPreset == InitRag /\ [][NextPreset]_vars

(***************************************************************************)
(* The translation calculator on the Translation tab.                      *)
(***************************************************************************)
TransFirstInputs ==
  { [DEFAULT_TRANSLATION_INPUTS EXCEPT
       !.numDocs = n, !.monthlyGrowth = g, !.numLanguages = l,
       !.qualityTier = q, !.baseCostPer1kChars = b] :
      n \in {Num(1000), Num(0), NaN},
      g \in {Num(5), Num(0)},
      l \in {Num(1), Num(2), Num(7)},
      q \in {"none", "basic", "full"},
      b \in {Fin(15, 100000), NaN, PosInf} }

\* positions of the sliders of the panel (each within its min, max and step)
TransSliderSamples ==
  [ numDocs |-> {Num(100)},
    charsPerDoc |-> {Num(100)},
    monthlyGrowth |-> {Num(1)} ]

InitTrans ==
  /\ activeTab = "TRANSLATION"
  /\ transInputs \in TransFirstInputs
  /\ ragInputs = DEFAULT_RAG_INPUTS
  /\ roiInputs = DEFAULT_ROI_INPUTS
  /\ NormIdle
  /\ SideIdle
  /\ InsightIdle

\* what a handler of TranslationCalc other than handleExport leaves behind:
\* the download link of an earlier export is no longer in the document
TransOtherUnchanged ==
  /\ csvRows' = <<>>
  /\ UNCHANGED <<activeTab, ragInputs, roiInputs, normVars, svcVars, narrVars,
               insightVars>>

\* useEffect: if (inputs.numLanguages === 2) setInputs({ ...inputs, numLanguages: 1 })
TransSnapLanguages ==
  /\ activeTab = "TRANSLATION"
  /\ transInputs.numLanguages = Num(2)
  /\ transInputs' = [transInputs EXCEPT !.numLanguages = Num(1)]
  /\ TransOtherUnchanged

\* <Slider ... onChange={(v) => setInputs({ ...inputs, field: v })} />
TransSetInputs ==
  /\ activeTab = "TRANSLATION"
  /\ \E f \in DOMAIN TransSliderSamples : \E v \in TransSliderSamples[f] :
       transInputs' = [transInputs EXCEPT ![f] = v]
  /\ TransOtherUnchanged

\* handleModelChange
handleModelChange ==
  /\ activeTab = "TRANSLATION"
  /\ \E id \in {"gemini-3-flash-preview", "gpt-4o", "not-in-catalog"} :
       LET hits == IndexOfId(TRANSLATION_MODELS, id) IN
       IF hits # {}
       THEN transInputs' =
              [transInputs EXCEPT
                 !.modelId = id,
                 !.baseCostPer1kChars =
                   Div(OrElse(TRANSLATION_MODELS[CHOOSE i \in hits : TRUE]
                                .costPerMillionChars, Num(0)),
                       Num(1000))]
       ELSE UNCHANGED transInputs
  /\ TransOtherUnchanged

\* the Language Scope select: numLanguages: Number(e.target.value)
TransSetNumLanguages ==
  /\ activeTab = "TRANSLATION"
  /\ \E l \in validCounts :
       transInputs' = [transInputs EXCEPT !.numLanguages = l]
  /\ TransOtherUnchanged

\* the Quality Control Level select
TransSetQualityTier ==
  /\ activeTab = "TRANSLATION"
  /\ \E q \in {"none", "basic", "full"} :
       transInputs' = [transInputs EXCEPT !.qualityTier = q]
  /\ TransOtherUnchanged

\* handleExport: the summary is offered as a file download
handleExport ==
  /\ activeTab = "TRANSLATION"
  /\ csvRows' = TransCsvRows(transInputs, transResults)
  /\ UNCHANGED <<appVars, normVars, svcVars, narrVars, insightVars>>

NextTrans ==
  \/ handleExport
  \/ TransSnapLanguages
  \/ TransSetInputs
  \/ handleModelChange
  \/ TransSetNumLanguages
  \/ TransSetQualityTier

SpecTrans == InitTrans /\ [][NextTrans]_vars

(***************************************************************************)
(* RoiPanel on the ROI tab, with the aiCostMonthly that App passes to it.  *)
(***************************************************************************)
\* inputs whose every cost term is 0
RoiFreeOfCost ==
  { [DEFAULT_ROI_INPUTS EXCEPT
       !.numUsers = u, !.costPerMillionTokens = Num(0),
       !.vectorDbBaseMonthly = Num(0), !.numIndexedDocs = Num(0),
       !.percentOutputsReviewed = Num(0)] :
      u \in {Num(200), Num(0)} }

RoiVaried ==
  { [DEFAULT_ROI_INPUTS EXCEPT
       !.timeSavedPerQuery = t, !.requestsPerUser = r, !.numUsers = u,
       !.employeeHourlyRate = e, !.vectorDbBaseMonthly = v,
       !.numIndexedDocs = d] :
      t \in {Num(4), Num(0), Num(1), NaN},
      r \in {Num(120), Num(10)},
      u \in {Num(200), Num(0), Num(1)},
      e \in {Num(85), Num(20)},
      v \in {Num(850), Num(0), PosInf},
      d \in {Num(25000), Num(0)} }

RoiFirstInputs == RoiVaried \cup RoiFreeOfCost

\* positions of the sliders of the panel (each within its min, max and step)
RoiSliderSamples ==
  [ timeSavedPerQuery |-> {Num(60)},
    numUsers |-> {Num(1)},
    vectorDbBaseMonthly |-> {Num(50)},
    percentOutputsReviewed |-> {Num(100)} ]

InitRoi ==
  /\ activeTab = "ROI"
  /\ transInputs = DEFAULT_TRANSLATION_INPUTS
  /\ ragInputs = DEFAULT_RAG_INPUTS
  /\ roiInputs \in RoiFirstInputs
  /\ NormIdle
  /\ SideIdle
  /\ InsightMounted(RoiPanelProjection(transInputs, ragInputs, roiInputs))

\* <Slider ... onChange={(v) => setInputs({ ...inputs, field: v })} />, and
\* the effect that follows the render with the new projection
RoiSetInputs ==
  /\ activeTab = "ROI"
  /\ \E f \in DOMAIN RoiSliderSamples : \E v \in RoiSliderSamples[f] :
       roiInputs' = [roiInputs EXCEPT ![f] = v]
  /\ InsightEffectRuns(RoiPanelProjection(transInputs, ragInputs, roiInputs'))
  /\ UNCHANGED <<activeTab, transInputs, ragInputs, normVars, sideVars>>

NextRoi == RoiSetInputs

SpecRoi == InitRoi /\ [][NextRoi]_vars

(***************************************************************************)
(* One call of a narrative function: the attempts of withRetry, the waits  *)
(* between them and the string the function returns.  attempts, waits and  *)
(* errors record what happened (the setTimeout delays that elapsed, the    *)
(* rejections seen).                                                       *)
(***************************************************************************)
ServiceErrors ==
  { JsError(JsString(Str429 \o <<" ", "l", "i", "m", "i", "t">>), JsUndefined),
    JsError(JsString(StrResourceExhausted), JsNumber(Num(503))),
    JsError(JsString(<<"q", "u", "o", "t", "a">>), JsNumber(Num(429))),
    JsError(JsString(<<"b", "o", "o", "m">>), JsNumber(Num(500))),
    JsError(JsString(<<>>), JsUndefined),
    JsError(JsUndefined, JsNumber(Num(4290))),
    JsString(<<"4", "2", " ", "9">>),
    JsUndefined }

ServiceTexts == {"narrative", ""}

InitRetry ==
  /\ activeTab = "HOME"
  /\ transInputs = DEFAULT_TRANSLATION_INPUTS
  /\ ragInputs = DEFAULT_RAG_INPUTS
  /\ roiInputs = DEFAULT_ROI_INPUTS
  /\ NormIdle
  /\ ExportIdle
  /\ call = CallIdle
  /\ NarrIdle
  /\ InsightIdle

\* a narrative function is called: withRetry(fn) makes the first attempt
ServiceCall ==
  /\ call = CallIdle
  /\ \E fn \in ServiceFns :
       call' = [ phase |-> "calling", fn |-> fn, retries |-> DefaultRetries,
                 delay |-> DefaultDelay, attempts |-> 1, waits |-> <<>>,
                 errors |-> <<>>, result |-> "" ]
  /\ UNCHANGED <<appVars, normVars, exportVars, narrVars, insightVars>>

\* generateContent resolves: return response.text || default
ServiceResolve ==
  /\ call.phase = "calling"
  /\ \E text \in ServiceTexts :
       call' = [call EXCEPT !.phase = "returned",
                            !.result = ServiceOnText(call.fn, text)]
  /\ UNCHANGED <<appVars, normVars, exportVars, narrVars, insightVars>>

\* generateContent rejects: withRetry waits to retry, or rethrows to the
\* function's catch block
ServiceReject ==
  /\ call.phase = "calling"
  /\ \E error \in ServiceErrors :
       IF ShouldRetry(call.retries, error)
       THEN call' = [call EXCEPT !.phase = "waiting",
                                 !.errors = Append(@, error)]
       ELSE call' = [call EXCEPT !.phase = "failed",
                                 !.errors = Append(@, error),
                                 !.result = ServiceOnError(call.fn, error)]
  /\ UNCHANGED <<appVars, normVars, exportVars, narrVars, insightVars>>

\* the setTimeout of withRetry elapses: withRetry(fn, retries - 1, delay * 2)
ServiceRetry ==
  /\ call.phase = "waiting"
  /\ call' = [call EXCEPT !.phase = "calling",
                          !.waits = Append(@, call.delay),
                          !.retries = @ - 1,
                          !.delay = @ * 2,
                          !.attempts = @ + 1]
  /\ UNCHANGED <<appVars, normVars, exportVars, narrVars, insightVars>>

NextRetry ==
  \/ ServiceCall
  \/ ServiceResolve
  \/ ServiceReject
  \/ ServiceRetry

SpecRetry == InitRetry /\ [][NextRetry]_vars

(***************************************************************************)
(* The application: the tabs, a slider of the mounted calculator, Update   *)
(* Analysis, the main narrative and RoiPanel's debounced graph insight.    *)
(* Time passes in steps while a timeout is pending.  MaxInFlight caps the  *)
(* narrative calls of each kind that are awaited at once.  SpecApp is the  *)
(* main narrative under tab switches, SpecInsight the graph insight of     *)
(* RoiPanel, SpecRefresh a stay on the ROI tab.                            *)
(***************************************************************************)
MaxInFlight == 2

Tabs == {"HOME", "TRANSLATION", "RAG", "ROI"}

\* what the narrative functions of App can return: the model's text or one
\* of formatError's messages
AnalysisReturns == {"narrative", RateLimitMessage}

\* what getRoiGraphInsight can return, as words: a text, a text behind the
\* label that RoiPanel strips, or nothing (also on every failure)
GraphInsightReturns ==
  {<<"slopes">>, <<"Graph Insight:", "slopes">>, <<>>}

InitApp ==
  /\ activeTab = "HOME"
  /\ transInputs = DEFAULT_TRANSLATION_INPUTS
  /\ ragInputs = DEFAULT_RAG_INPUTS
  /\ roiInputs = DEFAULT_ROI_INPUTS
  /\ NormIdle
  /\ SideIdle
  /\ InsightIdle

\* triggerAnalysis called in a render showing `tab`: up to its await
TriggerAnalysis(tab) ==
  IF tab = "HOME" THEN UNCHANGED narrVars
  ELSE /\ isAnalyzing' = TRUE
       /\ analyses' =
            Append([i \in 1..Len(analyses) |->
                      [analyses[i] EXCEPT !.latest = FALSE]],
                   [ tab |-> tab,
                     data |-> AnalysisData(tab, transInputs, ragInputs, roiInputs),
                     latest |-> TRUE ])
       /\ aiInsight' = [aiInsight EXCEPT !.latest = FALSE]

\* SetActiveTab that also writes the language scope of 1 when it opens the
\* Translation tab
SetActiveTabSnapping(tab) ==
  /\ tab # activeTab
  /\ tab # "HOME" => Len(analyses) < MaxInFlight
  /\ activeTab' = tab
  /\ TriggerAnalysis(tab)
  /\ IF tab = "ROI"
     THEN InsightEffectRuns(RoiPanelProjection(transInputs, ragInputs, roiInputs))
     ELSE IF activeTab = "ROI" THEN InsightUnmount
     ELSE UNCHANGED insightVars
  /\ csvRows' = <<>>
  /\ transInputs' = IF tab = "TRANSLATION"
                    THEN [transInputs EXCEPT !.numLanguages = Num(1)]
                    ELSE transInputs
  /\ UNCHANGED <<ragInputs, roiInputs, normVars, svcVars>>

\* a tab button or the logo: setActiveTab(tab), the mounting and unmounting
\* that follow, and the effect on [activeTab], which calls triggerAnalysis
SetActiveTab(tab) ==
  /\ tab # activeTab
  /\ tab # "HOME" => Len(analyses) < MaxInFlight
  /\ activeTab' = tab
  /\ TriggerAnalysis(tab)
  /\ IF tab = "ROI"
     THEN InsightEffectRuns(RoiPanelProjection(transInputs, ragInputs, roiInputs))
     ELSE IF activeTab = "ROI" THEN InsightUnmount
     ELSE UNCHANGED insightVars
  /\ csvRows' = <<>>
  /\ UNCHANGED <<transInputs, ragInputs, roiInputs, normVars, svcVars>>

\* the Update Analysis button: onClick={triggerAnalysis}, disabled={isAnalyzing}
UpdateAnalysis ==
  /\ activeTab # "HOME"
  /\ ~isAnalyzing
  /\ Len(analyses) < MaxInFlight
  /\ TriggerAnalysis(activeTab)
  /\ csvRows' = <<>>
  /\ UNCHANGED <<appVars, normVars, svcVars, insightVars>>

\* AnalysisArrives that also resets the parameters of the calculators
AnalysisArrivesResetting ==
  \E i \in 1..Len(analyses) : \E analysis \in AnalysisReturns :
    /\ aiInsight' = [ text |-> analysis, from |-> analyses[i].data,
                      latest |-> analyses[i].latest ]
    /\ isAnalyzing' = FALSE
    /\ analyses' = SubSeq(analyses, 1, i - 1) \o SubSeq(analyses, i + 1, Len(analyses))
    /\ transInputs' = DEFAULT_TRANSLATION_INPUTS
    /\ ragInputs' = DEFAULT_RAG_INPUTS
    /\ roiInputs' = DEFAULT_ROI_INPUTS
    /\ UNCHANGED <<activeTab, normVars, exportVars, svcVars, insightVars>>

\* the await of a triggerAnalysis returns:
\* setAiInsight(analysis || "Failed to generate insight."); setIsAnalyzing(false)
AnalysisArrives ==
  \E i \in 1..Len(analyses) : \E analysis \in AnalysisReturns :
    /\ aiInsight' =
         [ text |-> IF analysis # "" THEN analysis
                    ELSE "Failed to generate insight.",
           from |-> analyses[i].data,
           latest |-> analyses[i].latest ]
    /\ isAnalyzing' = FALSE
    /\ analyses' = SubSeq(analyses, 1, i - 1) \o SubSeq(analyses, i + 1, Len(analyses))
    /\ UNCHANGED <<appVars, normVars, exportVars, svcVars, insightVars>>

\* a slider of the mounted calculator is moved (and, in RoiPanel, the effect
\* that follows the render with the new projection)
MoveSlider ==
  /\ activeTab # "HOME"
  /\ \E value \in AppSliderSamples[activeTab] :
       CASE activeTab = "TRANSLATION" ->
              /\ transInputs' = [transInputs EXCEPT !.numDocs = value]
              /\ UNCHANGED <<ragInputs, roiInputs, insightVars>>
         [] activeTab = "RAG" ->
              /\ ragInputs' = [ragInputs EXCEPT !.numDocs = value]
              /\ UNCHANGED <<transInputs, roiInputs, insightVars>>
         [] activeTab = "ROI" ->
              /\ roiInputs' = [roiInputs EXCEPT !.numUsers = value]
              /\ InsightEffectRuns(
                   RoiPanelProjection(transInputs, ragInputs, roiInputs'))
              /\ UNCHANGED <<transInputs, ragInputs>>
  /\ csvRows' = <<>>
  /\ UNCHANGED <<activeTab, normVars, svcVars, narrVars>>

\* time passes, no further than the next timeout
Tick ==
  /\ timers # {}
  /\ \E d \in {DebounceMs \div 2, DebounceMs} :
       /\ \A t \in timers : t.left >= d
       /\ timers' = {[t EXCEPT !.left = @ - d] : t \in timers}
       /\ sinceChange' =
            IF sinceChange + d > DebounceMs THEN DebounceMs ELSE sinceChange + d
  /\ UNCHANGED <<appVars, normVars, sideVars, graphInsight, isNarrating,
                 activeEffs, fetches>>

\* a timeout that fires without calling getRoiGraphInsight
InsightTimerLost ==
  \E t \in timers :
    /\ t.left = 0
    /\ timers' = timers \ {t}
    /\ UNCHANGED <<appVars, normVars, sideVars, graphInsight, isNarrating,
                   activeEffs, fetches, sinceChange>>

\* the timeout fires: fetchInsight up to its await
\* setIsNarrating(true); getRoiGraphInsight(results.projection)
InsightTimerFires ==
  \E t \in timers :
    /\ t.left = 0
    /\ Cardinality(fetches) < MaxInFlight
    /\ timers' = timers \ {t}
    /\ isNarrating' = TRUE
    /\ fetches' = fetches \cup {[eff |-> t.eff, projection |-> t.projection]}
    /\ UNCHANGED <<appVars, normVars, sideVars, graphInsight, activeEffs,
                   sinceChange>>

\* the await of fetchInsight returns: if (active) { setGraphInsight(cleaned
\* || ""); setIsNarrating(false) }
GraphInsightArrives ==
  \E f \in fetches : \E text \in GraphInsightReturns :
    /\ fetches' = fetches \ {f}
    /\ IF f.eff \in activeEffs
       THEN /\ graphInsight' = [text |-> CleanInsight(text), from |-> f.projection]
            /\ isNarrating' = FALSE
       ELSE UNCHANGED <<graphInsight, isNarrating>>
    /\ UNCHANGED <<appVars, normVars, sideVars, activeEffs, timers, sinceChange>>

NextApp ==
  \/ \E tab \in Tabs : SetActiveTab(tab)
  \/ UpdateAnalysis
  \/ AnalysisArrives
  \/ TransSnapLanguages

SpecApp == InitApp /\ [][NextApp]_vars

\* RoiPanel mounted and unmounted, its slider, and time; the main narrative
\* stays awaited
NextInsight ==
  \/ \E tab \in {"HOME", "ROI"} : SetActiveTab(tab)
  \/ MoveSlider
  \/ Tick
  \/ InsightTimerFires
  \/ GraphInsightArrives

SpecInsight == InitApp /\ [][NextInsight]_vars

\* the ROI tab once opened: its slider, both narratives, and time
NextRefresh ==
  \/ SetActiveTab("ROI")
  \/ AnalysisArrives
  \/ MoveSlider
  \/ Tick
  \/ InsightTimerFires
  \/ GraphInsightArrives

SpecRefresh == InitApp /\ [][NextRefresh]_vars

\* Time passes, a due timeout fires, and (an assumption on the collaborator)
\* every awaited call returns.
SpecRefreshFair ==
  /\ SpecRefresh
  /\ WF_vars(Tick)
  /\ WF_vars(InsightTimerFires)
  /\ WF_vars(GraphInsightArrives)
  /\ WF_vars(AnalysisArrives)

\* the narrative function that triggerAnalysis awaits on a tab
AnalysisFn(tab) ==
  IF tab = "ROI" THEN "getRoiExecutiveInsight" ELSE "getAiAnalysis"

\* the call of one awaited triggerAnalysis is followed through withRetry
AnalysisCalls ==
  /\ call = CallIdle
  /\ \E i \in 1..Len(analyses) :
       call' = [ phase |-> "calling", fn |-> AnalysisFn(analyses[i].tab),
                 retries |-> DefaultRetries, delay |-> DefaultDelay,
                 attempts |-> 1, waits |-> <<>>, errors |-> <<>>,
                 result |-> "", req |-> i ]
  /\ UNCHANGED <<appVars, normVars, exportVars, narrVars, insightVars>>

\* the followed call has returned, and the await of its triggerAnalysis with
\* it: setAiInsight(analysis || "Failed to generate insight.");
\* setIsAnalyzing(false)
AnalysisSettles ==
  /\ call.phase \in {"returned", "failed"}
  /\ aiInsight' =
       [ text |-> IF call.result # "" THEN call.result
                  ELSE "Failed to generate insight.",
         from |-> analyses[call.req].data,
         latest |-> analyses[call.req].latest ]
  /\ isAnalyzing' = FALSE
  /\ analyses' = SubSeq(analyses, 1, call.req - 1)
                   \o SubSeq(analyses, call.req + 1, Len(analyses))
  /\ call' = CallIdle
  /\ UNCHANGED <<appVars, normVars, exportVars, insightVars>>

\* the main narrative with its calls followed through the service, one at a
\* time, on the tabs of the two functions that App awaits
NextAwait ==
  \/ \E tab \in {"HOME", "RAG", "ROI"} : SetActiveTab(tab)
  \/ UpdateAnalysis
  \/ AnalysisCalls
  \/ ServiceResolve
  \/ ServiceReject
  \/ ServiceRetry
  \/ AnalysisSettles

SpecAwait == InitApp /\ [][NextAwait]_vars

\* Every attempt is answered or refused (an assumption on the collaborator),
\* the timeout of withRetry elapses, and the continuations run.
SpecAwaitFair ==
  /\ SpecAwait
  /\ WF_svcVars(AnalysisCalls)
  /\ WF_svcVars(ServiceResolve \/ ServiceReject)
  /\ WF_svcVars(ServiceRetry)
  /\ WF_svcVars(AnalysisSettles)

(***************************************************************************)
(* Properties of the normalisation utility (SpecNorm)                      *)
(***************************************************************************)
\* C4: safeToNumber called with a finite fallback never returns NaN,
\* +Infinity or -Infinity, whatever the value it is given.
C4_NeverNonFinite ==
  (normOut # <<>> /\ IsFinite(normFallback)) => IsFinite(normOut[1])

\* the call returned the fallback for the string "Infinity"
C4_Witness ==
  /\ normVal = JsString(InfinityWord)
  /\ normOut = <<normFallback>>

\* the characters of s that are not "$", "," or white space, by position
Kept(s) == {i \in 1..Len(s) : s[i] \notin {"$", ",", " ", "\t", "\n"}}

\* s without "$", "," and white space is a run of n >= 1 digits, then
\* possibly a "." and a run of digits (a plain decimal such as 1234.50)
IsPlainDecimal(s) ==
  /\ \E i \in Kept(s) : s[i] \in Digits /\ \A j \in Kept(s) : j >= i
  /\ \A i \in Kept(s) : s[i] \in Digits \cup {"."}
  /\ Cardinality({i \in Kept(s) : s[i] = "."}) <= 1

\* the value of a plain decimal: each digit weighted by its place
RECURSIVE PlaceSum(_, _, _)
PlaceSum(s, idx, dot) ==
  IF idx = {} THEN Num(0)
  ELSE LET i == CHOOSE j \in idx : TRUE
           intPlace == Cardinality({j \in Kept(s) : j > i /\ j < dot /\ s[j] # "."})
           fracPlace == Cardinality({j \in Kept(s) : j > dot /\ j <= i})
           w == IF i < dot THEN Num(Pow10(intPlace)) ELSE Fin(1, Pow10(fracPlace))
       IN  Add(Mul(Num(DigitVal(s[i])), w), PlaceSum(s, idx \ {i}, dot))

PlainDecimalValue(s) ==
  LET dots == {i \in Kept(s) : s[i] = "."}
      dot == IF dots = {} THEN Len(s) + 1 ELSE CHOOSE i \in dots : TRUE
  IN  PlaceSum(s, {i \in Kept(s) : s[i] \in Digits}, dot)

\* the first kept character of s cannot start a number
StartsNonNumeric(s) ==
  \E i \in Kept(s) :
    /\ \A j \in Kept(s) : j >= i
    /\ s[i] \notin Digits \cup {"+", "-", ".", "I"}

C2_AnnualizedTotal ==
  activeTab = "RAG" =>
    LET r == ragResults IN
    r.annualizedTotal =
      Add(r.oneTimeSetupTotal,
          Add(Mul(Num(12), r.monthlyOpsTotal),
              Mul(Num(12), r.monthlyGovernanceTotal)))

\* a report with positive setup, operations and governance totals
C2_Witness ==
  /\ activeTab = "RAG"
  /\ LET r == ragResults IN
     /\ IsFinite(r.annualizedTotal)
     /\ Gt(r.oneTimeSetupTotal, Num(0))
     /\ Gt(r.monthlyOpsTotal, Num(0))
     /\ Gt(r.monthlyGovernanceTotal, Num(0))

\* chunkSize is zero, negative or not a finite number
InvalidChunkSize(v) ==
  \/ typeof(v) # "number"
  \/ ~IsFinite(v.num)
  \/ ~Gt(v.num, Num(0))

IsNonNegativeInteger(x) == IsFinite(x) /\ x.d = 1 /\ x.n >= 0

\* C6: when chunkSize is zero, negative or not a finite number, the engine
\* divides by a positive chunk size instead, and totalChunks is a finite
\* non-negative integer.
C6_ChunkSizeGuard ==
  (activeTab = "RAG" /\ InvalidChunkSize(ragInputs.chunkSize)) =>
    /\ Gt(RagChunkSize(ragInputs), Num(0))
    /\ IsNonNegativeInteger(ragResults.totalChunks)

\* C8: unitCostPerInteraction is exactly 0 when queriesPerMonth is 0, and
\* monthlyOpsTotal / queriesPerMonth when queriesPerMonth is positive.
C8_UnitCost ==
  activeTab = "RAG" =>
    LET r == ragResults
        q == RagLocals(ragInputs).queriesPerMonth
    IN  /\ ragInputs.queriesPerMonth = JsNumber(Num(0)) => q = Num(0)
        /\ q = Num(0) => r.unitCostPerInteraction = Num(0)
        /\ Gt(q, Num(0)) => r.unitCostPerInteraction = Div(r.monthlyOpsTotal, q)

\* no queries, and a positive monthly operations total to divide
C8_Witness ==
  /\ activeTab = "RAG"
  /\ ragInputs.queriesPerMonth = JsNumber(Num(0))
  /\ Gt(ragResults.monthlyOpsTotal, Num(0))
  /\ ragResults.unitCostPerInteraction = Num(0)

\* the monetary outputs of the RAG engine
RagMonetaryOutputs(r) ==
  { r.breakout.parsing, r.breakout.embedding, r.breakout.inference,
    r.breakout.db, r.breakout.rerank, r.breakout.gov,
    r.oneTimeSetupTotal, r.monthlyOpsTotal, r.monthlyGovernanceTotal,
    r.annualizedTotal, r.unitCostPerInteraction }

\* C10: every monetary output of the RAG engine is non-negative.
C10_NonNegative ==
  activeTab = "RAG" => \A x \in RagMonetaryOutputs(ragResults) : Ge(x, Num(0))

(***************************************************************************)
(* Properties of the translation engine (SpecTrans)                        *)
(***************************************************************************)
IsNonNegative(x) == IsFinite(x) /\ x.n >= 0

\* valid TranslationParameters: finite and non-negative numbers
ValidTrans(inputs) ==
  /\ IsNonNegative(inputs.numDocs)
  /\ IsNonNegative(inputs.charsPerDoc)
  /\ IsNonNegative(inputs.monthlyGrowth)
  /\ IsNonNegative(inputs.numLanguages)
  /\ IsNonNegative(inputs.baseCostPer1kChars)
  /\ IsNonNegative(inputs.humanReviewCostPer1kChars)

\* |a - b| <= tol for finite a, b
Within(a, b, tol) ==
  /\ IsFinite(a)
  /\ IsFinite(b)
  /\ Ge(tol, Sub(a, b))
  /\ Ge(tol, Sub(b, a))

\* y has at most f decimals and is within half a unit of the last decimal of x
IsRoundingOf(y, x, f) ==
  /\ IsFinite(y)
  /\ Pow10(f) % y.d = 0
  /\ Within(y, x, Fin(1, 2 * Pow10(f)))

\* C3 as stated: the total of the first point equals initialTotal, the total
\* of the last point equals initialTotal + 11 * monthlyTotal, and totalYear1
\* is the total of the last point.
C3_ExactTotals ==
  (activeTab = "TRANSLATION" /\ ValidTrans(transInputs)) =>
    LET r == transResults IN
    /\ r.projection[1].total = r.initialTotal
    /\ r.projection[12].total =
         Add(r.initialTotal, Mul(Num(11), r.monthlyTotal))
    /\ r.totalYear1 = r.projection[12].total

\* C3 (amended): for valid TranslationParameters the total of the first
\* point is initialTotal rounded to 2 decimals, the total of the last point
\* is initialTotal + 11 * monthlyTotal rounded to 2 decimals, and totalYear1
\* is the total of the last point.
C3_RoundedTotals ==
  (activeTab = "TRANSLATION" /\ ValidTrans(transInputs)) =>
    LET r == transResults IN
    /\ IsRoundingOf(r.projection[1].total, r.initialTotal, 2)
    /\ IsRoundingOf(r.projection[12].total,
                    Add(r.initialTotal, Mul(Num(11), r.monthlyTotal)), 2)
    /\ r.totalYear1 = r.projection[12].total

\* valid parameters whose first total was changed by the rounding and whose
\* monthly total shows in the projection
C3_Witness ==
  /\ activeTab = "TRANSLATION"
  /\ ValidTrans(transInputs)
  /\ LET r == transResults IN
     /\ r.projection[1].total # r.initialTotal
     /\ Gt(r.projection[12].total, r.projection[1].total)

\* the numbers each engine reports
TransNumbers(r) ==
  { r.totalInitialChars, r.initialApiCost, r.initialQaCost, r.initialTotal,
    r.monthlyNewCharsTotal, r.monthlyApiCost, r.monthlyQaCost, r.monthlyTotal,
    r.totalYear1, r.langMultiplier }
    \cup UNION {{r.projection[m].api, r.projection[m].qa, r.projection[m].total} :
                  m \in 1..12}

RagNumbers(r) ==
  RagMonetaryOutputs(r) \cup {r.totalChunks, r.storageSizeGb, r.breakout.queryEmbedding}
    \cup UNION {{r.projection[m].Setup, r.projection[m].Operations,
                 r.projection[m].Governance} : m \in 1..12}

RoiNumbers(r) ==
  { r.monthlyValue, r.netRoi, r.totalRequestsMonthly, r.totalMinutesMonthly,
    r.hoursSavedMonthly, r.breakdown.inference, r.breakdown.orchestration,
    r.breakdown.governance, r.sensitivity.breakEvenTime,
    r.sensitivity.targetReviewRate, r.sensitivity.totalCostTarget,
    r.sensitivity.users60, r.sensitivity.netGain60 }
    \cup (IF r.sensitivity.roiRatio = EmDash THEN {}
          ELSE {Number(r.sensitivity.roiRatio)})
    \cup UNION {{r.projection[m].cost, r.projection[m].value,
                 r.projection[m].netGain} : m \in 1..12}

\* C7: in each of the three engines no reported output is NaN or an
\* infinity, because every numeric field is normalised before it is used.
C7_OutputsFinite ==
  /\ activeTab = "TRANSLATION" => \A x \in TransNumbers(transResults) : IsFinite(x)
  /\ activeTab = "RAG" => \A x \in RagNumbers(ragResults) : IsFinite(x)
  /\ activeTab = "ROI" => \A x \in RoiNumbers(roiResults) : IsFinite(x)

(***************************************************************************)
(* Properties of the ROI engine (SpecRoi)                                  *)
(***************************************************************************)
\* C1 as stated: netRoi is monthlyValue - aiCostMonthly, and at each of the
\* 12 points the reported net gain is the reported value minus the reported
\* cost (in RoiPanel's projection and in App's projectionData).
C1_ExactNetGain ==
  activeTab = "ROI" =>
    LET r == roiResults
        p == projectionData
    IN  /\ r.netRoi = Sub(r.monthlyValue, aiCostMonthly)
        /\ \A m \in 1..12 :
             /\ r.projection[m].netGain =
                  Sub(r.projection[m].value, r.projection[m].cost)
             /\ p[m].profit = Sub(p[m].value, p[m].cost)

\* a and b are the same value, or finite and no more than tol apart
SameOrWithin(a, b, tol) == a = b \/ Within(a, b, tol)

\* C1 (amended): netRoi is monthlyValue - aiCostMonthly, and at each of the
\* 12 points the reported net gain differs from the reported value minus the
\* reported cost by at most 1 (the three are rounded to whole numbers
\* separately).
C1_RoundedNetGain ==
  activeTab = "ROI" =>
    LET r == roiResults
        p == projectionData
    IN  /\ r.netRoi = Sub(r.monthlyValue, aiCostMonthly)
        /\ \A m \in 1..12 :
             /\ SameOrWithin(r.projection[m].netGain,
                             Sub(r.projection[m].value, r.projection[m].cost),
                             Num(1))
             /\ SameOrWithin(p[m].profit, Sub(p[m].value, p[m].cost), Num(1))

\* a projection in which a reported net gain is not value minus cost
C1_Witness ==
  /\ activeTab = "ROI"
  /\ \E m \in 1..12 :
       LET pt == roiResults.projection[m] IN
       /\ IsFinite(pt.netGain)
       /\ pt.netGain # Sub(pt.value, pt.cost)

\* C9 as stated: roiRatio is the marker when aiCostMonthly is 0, and
\* monthlyValue / aiCostMonthly when aiCostMonthly is positive.
C9_ExactRatio ==
  activeTab = "ROI" =>
    LET r == roiResults IN
    /\ aiCostMonthly = Num(0) => r.sensitivity.roiRatio = EmDash
    /\ Gt(aiCostMonthly, Num(0)) =>
         /\ r.sensitivity.roiRatio # EmDash
         /\ Number(r.sensitivity.roiRatio) = Div(r.monthlyValue, aiCostMonthly)

\* C9 (amended): roiRatio is the marker when aiCostMonthly is 0 (never
\* Infinity or NaN), and monthlyValue / aiCostMonthly rounded to 2 decimals
\* when aiCostMonthly is positive.
C9_RoundedRatio ==
  activeTab = "ROI" =>
    LET r == roiResults
        q == Div(r.monthlyValue, aiCostMonthly)
    IN  /\ aiCostMonthly = Num(0) => r.sensitivity.roiRatio = EmDash
        /\ Gt(aiCostMonthly, Num(0)) =>
             /\ r.sensitivity.roiRatio # EmDash
             /\ r.sensitivity.roiRatio.f = 2
             /\ \/ Number(r.sensitivity.roiRatio) = q
                \/ IsRoundingOf(Number(r.sensitivity.roiRatio), q, 2)

\* no cost and a positive value: the ratio would be Infinity
C9_Witness ==
  /\ activeTab = "ROI"
  /\ aiCostMonthly = Num(0)
  /\ Gt(roiResults.monthlyValue, Num(0))
  /\ roiResults.sensitivity.roiRatio = EmDash

(***************************************************************************)
(* Properties of the ROI scenario variants (SpecRoi)                       *)
(***************************************************************************)
RoiInputsFinite(inputs) == \A f \in DOMAIN inputs : IsFinite(inputs[f])

\* C11 as stated: with a positive timeSaved and a positive total AI monthly
\* cost, the net monthly gain of the Conservative variant is strictly less
\* than that of the Base Case.
C11_ConservativeBelowBase ==
  ( /\ activeTab = "ROI"
    /\ Gt(roiInputs.timeSavedPerQuery, Num(0))
    /\ Gt(aiCostMonthly, Num(0)) ) =>
    Gt(scenarios.Base, scenarios.Conservative)

\* C11 (amended): for finite parameters the Conservative net monthly gain is
\* strictly less than the Base Case's exactly when 0.58 of the monthly
\* productivity value exceeds 0.3 of the inference and governance costs.
C11_ConservativeBelowBaseIff ==
  (activeTab = "ROI" /\ RoiInputsFinite(roiInputs)) =>
    LET r == roiResults
        lost == Mul(Fin(58, 100), r.monthlyValue)
        saved == Mul(Fin(3, 10), Add(r.breakdown.inference, r.breakdown.governance))
    IN  Gt(scenarios.Base, scenarios.Conservative) <=> Gt(lost, saved)

\* positive timeSaved and cost, and a Conservative variant that gains more
\* than the Base Case
C11_Witness ==
  /\ activeTab = "ROI"
  /\ RoiInputsFinite(roiInputs)
  /\ Gt(roiInputs.timeSavedPerQuery, Num(0))
  /\ Gt(aiCostMonthly, Num(0))
  /\ Gt(scenarios.Conservative, scenarios.Base)

(***************************************************************************)
(* Properties of the language multiplier (SpecTrans)                       *)
(***************************************************************************)
SnappedMultiplier(n) ==
  IF n = Num(1) \/ n = Num(3) \/ n = Num(10) \/ n = Num(20) THEN n ELSE Num(1)

\* C12: the multiplier in the cost formulas, in the projection and in the
\* exported table is numLanguages when that is 1, 3, 10 or 20, and 1 for
\* every other value.
C12_LanguageMultiplier ==
  activeTab = "TRANSLATION" =>
    LET i == transInputs
        r == transResults
        m == SnappedMultiplier(i.numLanguages)
        chars == Mul(Mul(i.numDocs, i.charsPerDoc), m)
        newChars ==
          Mul(Mul(Mul(i.numDocs, Div(i.monthlyGrowth, Num(100))), i.charsPerDoc), m)
        api == Mul(Div(chars, Num(1000)), i.baseCostPer1kChars)
        newApi == Mul(Div(newChars, Num(1000)), i.baseCostPer1kChars)
    IN  /\ r.langMultiplier = m
        /\ r.totalInitialChars = chars
        /\ r.monthlyNewCharsTotal = newChars
        /\ r.initialApiCost = api
        /\ r.monthlyApiCost = newApi
        /\ r.projection[1].api =
             Number(toFixed(Add(api, Mul(newApi, Num(0))), 2))
        /\ r.projection[12].api =
             Number(toFixed(Add(api, Mul(newApi, Num(11))), 2))
        /\ csvRows # <<>> =>
             /\ csvRows[3] = <<"Language Scope (Multiplier)", m>>
             /\ csvRows[11] = <<"Total Initial Characters", chars>>

\* an export made while numLanguages is not one of the four tiers
C12_Witness ==
  /\ activeTab = "TRANSLATION"
  /\ transInputs.numLanguages = Num(7)
  /\ IsFinite(transResults.totalInitialChars)
  /\ csvRows # <<>>
  /\ csvRows[3][2] = Num(1)

(***************************************************************************)
(* Properties of the narrative service (SpecRetry)                         *)
(***************************************************************************)
CallUnderWay == call.phase # "idle"

\* C13: a rate-limited attempt is retried at most twice (3 attempts in all),
\* after waits of 1000 ms and then 2000 ms; an error that is not
\* rate-limiting is not retried and is reported with no wait, also after
\* rate-limited attempts.
C13_BoundedRetry ==
  CallUnderWay =>
    /\ call.attempts <= 3
    /\ call.waits = SubSeq(<<1000, 2000>>, 1, call.attempts - 1)
    /\ \A i \in 1..Len(call.errors) :
         i < call.attempts => IsRateLimit(call.errors[i])
    /\ call.phase = "waiting" =>
         /\ Len(call.errors) = call.attempts
         /\ call.attempts < 3
    /\ call.phase = "failed" =>
         /\ Len(call.errors) = call.attempts
         /\ IsRateLimit(call.errors[call.attempts]) => call.attempts = 3

\* a failure that is not rate-limiting, after two rate-limited attempts
C13_Witness ==
  /\ call.phase = "failed"
  /\ call.waits = <<1000, 2000>>
  /\ ~IsRateLimit(call.errors[3])
  /\ IsRateLimit(call.errors[2])

\* C14: when getAiAnalysis or getRoiExecutiveInsight fails, it returns the
\* rate-limit message if the final error is rate-limiting and the generic
\* message otherwise, and nothing of the error.
C14_FixedMessages ==
  ( /\ call.phase = "failed"
    /\ call.fn \in {"getAiAnalysis", "getRoiExecutiveInsight"} ) =>
    LET final == call.errors[Len(call.errors)] IN
    /\ IsRateLimit(final) => call.result = RateLimitMessage
    /\ ~IsRateLimit(final) => call.result = GenericMessage

\* getRoiExecutiveInsight failing on a rate limit after all its retries
C14_Witness ==
  /\ call.phase = "failed"
  /\ call.fn = "getRoiExecutiveInsight"
  /\ call.attempts = 3
  /\ call.result = RateLimitMessage

\* C15: when getRoiGraphInsight or getRoiNarrative fails, for every kind of
\* error and after any retries, it returns the empty string.
C15_SilentFailure ==
  ( /\ call.phase = "failed"
    /\ call.fn \in {"getRoiGraphInsight", "getRoiNarrative"} ) =>
    call.result = ""

\* getRoiGraphInsight failing on a rate limit after all its retries
C15_Witness ==
  /\ call.phase = "failed"
  /\ call.fn = "getRoiGraphInsight"
  /\ call.attempts = 3
  /\ IsRateLimit(call.errors[3])
  /\ call.result = ""

(***************************************************************************)
(* Properties of the narratives of App and RoiPanel                        *)
(***************************************************************************)
\* C16: once every request of the main narrative has resolved, the insight
\* displayed is the response to the most recently issued request.
C16_NewestDisplayed ==
  (analyses = <<>> /\ ~isAnalyzing) => aiInsight.latest

\* the projection RoiPanel shows now
CurrentProjection == RoiPanelProjection(transInputs, ragInputs, roiInputs)

\* the response to f arrives
Arrives(f) == f \in fetches /\ f \notin fetches'

\* the projection changed, or the panel was unmounted, since f was called
Superseded(f) ==
  \/ activeTab # "ROI"
  \/ f.projection # CurrentProjection
  \/ f.eff \notin activeEffs

\* C18: a graph-insight response that arrives after its projection was
\* superseded changes neither graphInsight nor isNarrating, and superseding
\* a call (a new projection, an unmount) leaves the call awaited.
C18_StaleDiscarded ==
  [][ /\ \A f \in fetches :
           (Arrives(f) /\ Superseded(f)) =>
             (graphInsight' = graphInsight /\ isNarrating' = isNarrating)
      /\ activeEffs' # activeEffs => fetches' = fetches ]_vars

\* the panel is mounted and narrating, yet every call has returned: the last
\* response was discarded
C18_Witness ==
  /\ activeTab = "ROI"
  /\ isNarrating
  /\ fetches = {}
  /\ graphInsight.from = NoData

\* C19: getRoiGraphInsight is called only with the projection shown, and
\* only when DebounceMs have passed since that projection was computed; at
\* most one call is pending, and it is for the projection shown.
C19_Debounced ==
  [][ /\ \A f \in fetches' \ fetches :
           /\ sinceChange = DebounceMs
           /\ activeTab = "ROI"
           /\ f.projection = CurrentProjection
      /\ Cardinality(timers') <= 1
      /\ \A t \in timers' :
           t.projection = RoiPanelProjection(transInputs', ragInputs', roiInputs') ]_vars

\* after the slider was moved, one call is awaited, made with the projection
\* of the moved slider, and nothing is pending
C19_Witness ==
  /\ activeTab = "ROI"
  /\ roiInputs.numUsers = Num(1)
  /\ timers = {}
  /\ \E f \in fetches :
       /\ fetches = {f}
       /\ f.eff \in activeEffs
       /\ f.projection = CurrentProjection
  /\ graphInsight.from = NoData

\* what the mounted calculator and App compute from the parameters
NumericOutputsOf(tab, trans, rag, roi) ==
  LET cost == currentAiMonthlyCost(tab, trans, rag, roi)
      results == RoiResults(roi, cost)
  IN  [ transResults |-> IF tab = "TRANSLATION" THEN TransResults(trans)
                         ELSE NotMounted,
        ragResults |-> IF tab = "RAG" THEN RagResults(rag) ELSE NotMounted,
        roiResults |-> IF tab = "ROI" THEN results ELSE NotMounted,
        scenarios |-> IF tab = "ROI" THEN RoiScenarios(roi, results)
                      ELSE NotMounted,
        projectionData |-> projectionDataOf(roi, cost) ]

NumericOutputs == NumericOutputsOf(activeTab, transInputs, ragInputs, roiInputs)

\* C17: a step of the narratives (a response of either narrative function
\* arrives, with a text or a failure message or nothing; a timeout fires and
\* calls it; time passes) leaves every numeric output as it was, so the
\* outputs follow the parameters alone.  (The outputs are functions of the
\* tab and the parameters: where these are unchanged nothing is compared.)
C17_NumbersFromParameters ==
  [][ ( \/ Len(analyses') < Len(analyses)
        \/ fetches' # fetches
        \/ sinceChange' > sinceChange ) =>
      \/ appVars' = appVars
      \/ NumericOutputsOf(activeTab', transInputs', ragInputs', roiInputs')
           = NumericOutputs ]_vars

\* both narratives have failed (a failure message, an empty graph insight)
\* for a moved slider, and RoiPanel shows the numbers of that slider
C17_Witness ==
  /\ activeTab = "ROI"
  /\ roiInputs.numUsers = Num(1)
  /\ aiInsight.text = RateLimitMessage
  /\ graphInsight.text = <<>>
  /\ graphInsight.from = CurrentProjection
  /\ NumericOutputs.roiResults = roiResults
  /\ IsFinite(roiResults.netRoi)

\* the user acts: a tab is switched, or a slider is moved (a new timeout)
UserActs ==
  \/ appVars' # appVars
  \/ \E t \in timers' : t.left = DebounceMs /\ t \notin timers

\* C20 as stated, on the ROI tab: once the user stops changing parameters,
\* both narratives shown come to be generated from the current parameters.
C20_NarrativesRefreshed ==
  <>[][~UserActs]_vars =>
    <>[](activeTab = "ROI" =>
           /\ graphInsight.from = CurrentProjection
           /\ aiInsight.from = projectionData)

\* C20 for the graph insight of RoiPanel alone: once the user stops changing
\* parameters, the graph insight shown comes to be generated from the
\* projection of the current parameters, and stays so.
C20_GraphInsightRefreshed ==
  <>[][~UserActs]_vars =>
    <>[](activeTab = "ROI" => graphInsight.from = CurrentProjection)

\* after a slider move everything has settled: the graph insight is from the
\* current projection, the main narrative from the parameters before the move
C20_Witness ==
  /\ activeTab = "ROI"
  /\ roiInputs.numUsers = Num(1)
  /\ timers = {} /\ fetches = {} /\ analyses = <<>>
  /\ graphInsight.from = CurrentProjection
  /\ aiInsight.from # NoData
  /\ aiInsight.from # projectionData

(***************************************************************************)
(* Further properties of the three engines and of App                      *)
(***************************************************************************)
\* C21: on the ROI tab, the monthly AI cost App passes to RoiPanel is the sum
\* of the three pillar costs RoiPanel shows.
C21_CostIsSumOfPillars ==
  activeTab = "ROI" =>
    LET pillars == roiResults.breakdown
    IN  aiCostMonthly =
          Add(Add(pillars.inference, pillars.orchestration), pillars.governance)

\* three positive pillars, away from the defaults, and a net gain that uses
\* their sum
C21_Witness ==
  /\ activeTab = "ROI"
  /\ roiInputs # DEFAULT_ROI_INPUTS
  /\ Gt(roiResults.breakdown.inference, Num(0))
  /\ Gt(roiResults.breakdown.orchestration, Num(0))
  /\ Gt(roiResults.breakdown.governance, Num(0))
  /\ roiResults.netRoi = Sub(roiResults.monthlyValue, aiCostMonthly)
  /\ IsFinite(roiResults.netRoi)

\* the stacked total of a point of the RAG projection
RagStacked(pt) == Add(Add(pt.Setup, pt.Operations), pt.Governance)

\* setup + months * (operations + governance)
RagAccrued(r, months) ==
  Add(r.oneTimeSetupTotal,
      Mul(Num(months), Add(r.monthlyOpsTotal, r.monthlyGovernanceTotal)))

\* the rounding of the three components of a point to 2 decimals
RagStackTolerance == Fin(3, 200)

\* C22 as stated: the stacked total at 0-based index i is the setup total
\* plus i times (operations + governance), so the first point is the setup
\* total alone (up to the rounding of the components).
C22_SetupAloneAtMonthOne ==
  activeTab = "RAG" =>
    LET r == ragResults IN
    \A i \in 0..11 :
      SameOrWithin(RagStacked(r.projection[i + 1]), RagAccrued(r, i),
                   RagStackTolerance)

\* C22 (amended): the stacked total at 0-based index i is the setup total
\* plus (i + 1) times (operations + governance), up to the rounding of the
\* three components; the first point holds one month of both already.
C22_FirstMonthAccrued ==
  activeTab = "RAG" =>
    LET r == ragResults IN
    \A i \in 0..11 :
      SameOrWithin(RagStacked(r.projection[i + 1]), RagAccrued(r, i + 1),
                   RagStackTolerance)

\* positive setup, operations and governance: the first point exceeds the
\* setup total
C22_Witness ==
  /\ activeTab = "RAG"
  /\ LET r == ragResults IN
     /\ IsFinite(r.annualizedTotal)
     /\ Gt(r.oneTimeSetupTotal, Num(0))
     /\ Gt(r.projection[1].Operations, Num(0))
     /\ Gt(r.projection[1].Governance, Num(0))
     /\ Gt(RagStacked(r.projection[1]), Add(r.oneTimeSetupTotal, Num(1)))

\* an inference cost term: (queries * tokens / 1_000_000) * rate
RagInferenceTerm(queries, tokens, rate) ==
  Mul(Div(Mul(queries, tokens), Million), rate)

\* C23: both inference cost terms are computed from queriesPerMonth *
\* (1 - cacheHitRatePct / 100), which is 4000 for 5000 queries and a cache
\* hit rate of 20.
C23_EffectiveQueries ==
  activeTab = "RAG" =>
    LET l == RagLocals(ragInputs)
        model == FindOrFirst(INFERENCE_MODELS, ragInputs.inferenceModelId)
        cached == safeToNumber(ragInputs.cacheHitRatePct, Num(0))
        answer == safeToNumber(ragInputs.avgAnswerTokens, Num(0))
        effective ==
          Mul(l.queriesPerMonth, Sub(Num(1), Div(cached, Num(100))))
    IN  /\ ragResults.breakout.inference =
             Add(RagInferenceTerm(effective, l.tokensPerQueryIn,
                                  model.costPerMillionInputTokens),
                 RagInferenceTerm(effective, answer,
                                  model.costPerMillionOutputTokens))
        /\ ( /\ ragInputs.queriesPerMonth = JsNumber(Num(5000))
             /\ ragInputs.cacheHitRatePct = JsNumber(Num(20)) ) =>
             l.effectiveQueries = Num(4000)

\* 5000 queries with a cache hit rate of 20, and an inference cost below the
\* cost of 5000 uncached queries
C23_Witness ==
  /\ activeTab = "RAG"
  /\ ragInputs.queriesPerMonth = JsNumber(Num(5000))
  /\ ragInputs.cacheHitRatePct = JsNumber(Num(20))
  /\ LET l == RagLocals(ragInputs)
         model == FindOrFirst(INFERENCE_MODELS, ragInputs.inferenceModelId)
     IN  /\ IsFinite(ragResults.breakout.inference)
         /\ Gt(Add(RagInferenceTerm(Num(5000), l.tokensPerQueryIn,
                                    model.costPerMillionInputTokens),
                   RagInferenceTerm(Num(5000), Num(250),
                                    model.costPerMillionOutputTokens)),
               ragResults.breakout.inference)

\* C24: 1000 documents of 2500 characters, language multiplier 1, base cost
\* 0.00015 per 1000 characters, basic review and a review cost of 0.05 per
\* 1000 characters give 2,500,000 initial characters, an initial API cost of
\* 0.375, an initial review cost of 3.75 and an initial total of 4.125.
C24_WorkedExample ==
  ( /\ activeTab = "TRANSLATION"
    /\ transInputs.numDocs = Num(1000)
    /\ transInputs.charsPerDoc = Num(2500)
    /\ transResults.langMultiplier = Num(1)
    /\ transInputs.baseCostPer1kChars = Fin(15, 100000)
    /\ transInputs.qualityTier = "basic"
    /\ transInputs.humanReviewCostPer1kChars = Fin(5, 100) ) =>
    LET r == transResults IN
    /\ r.totalInitialChars = Num(2500000)
    /\ r.initialApiCost = Fin(375, 1000)
    /\ r.initialQaCost = Fin(375, 100)
    /\ r.initialTotal = Fin(4125, 1000)

\* the inputs of the example, with a language scope of 1
C24_Witness ==
  /\ activeTab = "TRANSLATION"
  /\ transInputs = [DEFAULT_TRANSLATION_INPUTS EXCEPT !.numLanguages = Num(1)]
  /\ transResults.initialQaCost = Fin(375, 100)

\* totalChunks * dimension * 4 bytes, inflated by the metadata overhead and
\* multiplied by `factor`, in GB
RagStorageOf(inputs, r, factor) ==
  LET dimension ==
        FindOrFirst(EMBEDDING_MODELS, inputs.ingestionModelId).dimension
      overhead == safeToNumber(inputs.metadataOverheadPct, Num(0))
      bytes == Mul(Mul(r.totalChunks, dimension), Num(4))
  IN  Div(Mul(Mul(bytes, Add(Num(1), Div(overhead, Num(100)))), factor),
          Num(1024 * 1024 * 1024))

\* C25 as stated: the storage size is totalChunks * dimension * 4 bytes
\* inflated by (1 + metadataOverheadPct / 100) and divided by 1024^3, with no
\* other factor.
C25_StorageNoFactor ==
  activeTab = "RAG" =>
    ragResults.storageSizeGb = RagStorageOf(ragInputs, ragResults, Num(1))

\* C25 (amended): the storage size is ten times that value.
C25_StorageTenfold ==
  activeTab = "RAG" =>
    ragResults.storageSizeGb = RagStorageOf(ragInputs, ragResults, Num(10))

\* a finite number of chunks and a positive storage size
C25_Witness ==
  /\ activeTab = "RAG"
  /\ IsFinite(ragResults.totalChunks)
  /\ Gt(ragResults.totalChunks, Num(0))
  /\ IsFinite(ragResults.storageSizeGb)
  /\ Gt(ragResults.storageSizeGb, Num(0))

\* C26: isAnalyzing is true whenever a request of the main narrative is
\* still awaited.
C26_BusyWhileInFlight == analyses # <<>> => isAnalyzing

\* C27: getAiAnalysis and getRoiExecutiveInsight end every call with a
\* non-empty string, whether the collaborator answers with a text, answers
\* with an empty text or fails (also on every attempt); the text App shows is
\* never its own "Failed to generate insight."; and whenever isAnalyzing is
\* true it is eventually set back to false.
C27_AlwaysAnAnswer ==
  /\ [](call.phase \in {"returned", "failed"} => call.result # "")
  /\ [](aiInsight.text # "Failed to generate insight.")
  /\ isAnalyzing ~> ~isAnalyzing

\* a call that found the rate limit on all three attempts has been shown,
\* and nothing is awaited any more
C27_Witness ==
  /\ aiInsight.text = RateLimitMessage
  /\ ~isAnalyzing
  /\ analyses = <<>>
  /\ call = CallIdle
  /\ activeTab = "ROI"

C29_LastPointIsAnnualized ==
  activeTab = "RAG" =>
    LET r == ragResults IN
    SameOrWithin(RagStacked(r.projection[12]), r.annualizedTotal,
                 RagStackTolerance)

\* a finite annualizedTotal with more than 2 decimals, and governance that
\* has accumulated over the 12 months
C29_Witness ==
  /\ activeTab = "RAG"
  /\ LET r == ragResults IN
     /\ IsFinite(r.annualizedTotal)
     /\ RagStacked(r.projection[12]) # r.annualizedTotal
     /\ Gt(r.projection[12].Governance, r.projection[1].Governance)

\* C30: the record that a scenario preset sets depends on the preset alone
\* and not on the record held before: it is the record the preset gives on
\* the defaults, every field the preset does not name has its default, every
\* field it names has the preset's value, and applying the preset to the
\* result gives the result again.
C30_PresetAlone ==
  activeTab = "RAG" =>
    \A preset \in Presets :
      LET once == applyPreset(ragInputs, preset) IN
      /\ once = applyPreset(DEFAULT_RAG_INPUTS, preset)
      /\ DOMAIN once = DOMAIN DEFAULT_RAG_INPUTS
      /\ \A f \in DOMAIN once :
           once[f] = IF f \in DOMAIN PresetFields(preset)
                     THEN PresetFields(preset)[f]
                     ELSE DEFAULT_RAG_INPUTS[f]
      /\ applyPreset(once, preset) = once

\* the enterprise preset has been applied (no first record and no slider
\* gives 100000 documents) where the record held differed from the defaults
\* in a field the preset does not name, and the inference model was changed
\* afterwards
C30_Witness ==
  /\ activeTab = "RAG"
  /\ [ragInputs EXCEPT !.inferenceModelId = "gemini-3-flash-preview"]
       = applyPreset(ragInputs, "enterprise")
  /\ ragInputs.inferenceModelId = "claude-3-haiku"

====
